---- MODULE Spec2Model ----
(***************************************************************************)
(* Verification model of the WorkflowAI python SDK.                        *)
(*                                                                         *)
(*   - Frame reassembly: APIClient._wrap_sse and APIClient.stream          *)
(*     (src/workflowai/core/client/_api.py)                                *)
(*   - Tolerant decoding: construct_model_recursive                        *)
(*     (src/workflowai/core/utils/_pydantic.py)                            *)
(*   - Version reconciliation: WorkflowAIClient.run (client.py) and        *)
(*     Agent._sanitize_version (agent.py is not part of the sources; it is *)
(*     reconstructed from the specification and from agent_test.py)        *)
(*                                                                         *)
(* Bytes are one-character strings; a byte string is a sequence of them.   *)
(***************************************************************************)
EXTENDS Integers, Sequences, FiniteSets, TLC

VARIABLES
    payloads,   \* the frame payloads the server wrote, in order
    stream,     \* the bytes on the wire: the concatenation of the frames
    pos,        \* number of bytes of `stream` already delivered as chunks
    oneByOne,   \* TRUE while every chunk delivered so far was a single byte
    data,       \* _wrap_sse: the local `data` buffer
    in_data,    \* _wrap_sse: the local `in_data` flag
    frames,     \* the frames _wrap_sse has yielded so far, in order
    leftover,   \* TRUE when the "Data left after processing" warning was logged
    yielded,    \* the objects APIClient.stream has yielded so far, in order
    status,     \* HTTP status code of the streaming response
    pc,         \* position of the consumer: "open", "recv", "done", "raised"
    model,      \* tolerant decoding: the target model class
    payload,    \* tolerant decoding: the parsed JSON object to decode
    constructed,\* what construct_model_recursive(model, payload) returned or raised
    validated,  \* what model.model_validate(payload) returned or raised
    env_var,        \* WORKFLOWAI_DEFAULT_VERSION in the environment (<<>>: not set)
    global_default, \* the process-wide default version, read once from env_var
    agent_version,  \* Agent.version: the agent's declared default (JNull: none)
    task_version,   \* Task.version of the task handed to WorkflowAIClient.run
    params,         \* the arguments of the run call made
    request_version,\* the version field of the run request sent (Nothing: none yet)
    run_stream,      \* WorkflowAIClient.run: the stream argument
    max_retry_count, \* WorkflowAIClient.run: the max_retry_count argument
    retry_delay,     \* WorkflowAIClient.run: the retry_delay argument (ms)
    max_retry_delay, \* WorkflowAIClient.run: the max_retry_delay argument (ms)
    attempt,         \* iterations of the retry loop completed
    delay,           \* the local `delay` of the retry loop (ms)
    slept,           \* the durations passed to asyncio.sleep, in order (ms)
    seen,            \* what the transport answered to each request, in order
    outcome,         \* how run ended (Nothing: still running, NotCalled: no call made)
    agent_call,      \* Agent.run / Agent.reply: the call made and the agent's configuration
    agent_state,     \* the orchestrator's position: what it sends next, turn, attempts
    agent_log,       \* the requests sent and the tools invoked, in order
    agent_outcome,   \* how the agent's call ended (Nothing: still running)
    api_op,          \* APIClient: the method called (get, post, patch, delete, stream)
    api_pc,          \* APIClient: start, streaming or done
    api_seen,        \* APIClient: what the transport produced, in order
    api_yielded,     \* APIClient.stream: the frames handed to the caller
    api_outcome,     \* APIClient: what the caller got (Nothing: call in progress)
    gens,            \* the locals of each running _wrap_sse generator, by stream
    task,            \* WorkflowAIClient: the id and schema_id of the task object
    callers,         \* WorkflowAIClient: the position of each concurrent call
    requests         \* WorkflowAIClient: the requests sent, in order

sseVars == <<payloads, stream, pos, oneByOne, data, in_data, frames, leftover, yielded, status, pc>>
decVars == <<model, payload, constructed, validated>>
verVars == <<env_var, global_default, agent_version, task_version, params, request_version>>
runVars == <<run_stream, max_retry_count, retry_delay, max_retry_delay, attempt, delay, slept,
             seen, outcome>>
agentVars == <<agent_call, agent_state, agent_log, agent_outcome>>
apiVars == <<api_op, api_pc, api_seen, api_yielded, api_outcome>>
concVars == <<gens>>
regVars == <<task, callers, requests>>
notSseVars == <<decVars, verVars, runVars, agentVars, apiVars, concVars, regVars>>
notDecVars == <<sseVars, verVars, runVars, agentVars, apiVars, concVars, regVars>>
notVerVars == <<sseVars, decVars, runVars, agentVars, apiVars, concVars, regVars>>
notRunVars == <<sseVars, decVars, verVars, agentVars, apiVars, concVars, regVars>>
notAgentVars == <<sseVars, decVars, verVars, runVars, apiVars, concVars, regVars>>
notApiVars == <<sseVars, decVars, verVars, runVars, agentVars, concVars, regVars>>
notConcVars == <<sseVars, decVars, verVars, runVars, agentVars, apiVars, regVars>>
notRegVars == <<sseVars, decVars, verVars, runVars, agentVars, apiVars, concVars>>
vars == <<sseVars, decVars, verVars, runVars, agentVars, apiVars, concVars, regVars>>

----------------------------------------------------------------------------
(* Bounds                                                                  *)

MaxFrames == 2
MaxPayloadLen == 2
MaxItems == 2

----------------------------------------------------------------------------
(* Byte strings                                                            *)

NL == "\n"

\* b"data: "
StartMarker == <<"d", "a", "t", "a", ":", " ">>

\* the default of the termination_chars parameter, b"\n\n"
termination_chars == <<NL, NL>>

\* b"\n\ndata: "
Separator == termination_chars \o StartMarker

\* bytes.startswith
StartsWith(s, p) == Len(s) >= Len(p) /\ SubSeq(s, 1, Len(p)) = p

\* bytes.endswith
EndsWith(s, p) == Len(s) >= Len(p) /\ SubSeq(s, Len(s) - Len(p) + 1, Len(s)) = p

\* index of the leftmost occurrence of sep in s at or after i, 0 when none
RECURSIVE FindFrom(_, _, _)
FindFrom(s, sep, i) ==
    IF i + Len(sep) - 1 > Len(s) THEN 0
    ELSE IF SubSeq(s, i, i + Len(sep) - 1) = sep THEN i
    ELSE FindFrom(s, sep, i + 1)

\* bytes.split(sep): leftmost, non-overlapping occurrences; always at least one part
RECURSIVE Split(_, _)
Split(s, sep) ==
    LET i == FindFrom(s, sep, 1)
    IN  IF i = 0 THEN <<s>>
        ELSE <<SubSeq(s, 1, i - 1)>> \o Split(SubSeq(s, i + Len(sep), Len(s)), sep)

\* TRUE when sep occurs somewhere in s
Contains(s, sep) == FindFrom(s, sep, 1) # 0

RECURSIVE Concat(_)
Concat(ss) == IF ss = <<>> THEN <<>> ELSE Head(ss) \o Concat(Tail(ss))

----------------------------------------------------------------------------
(* Values.  Every JSON or Python value is a record [t, cls, v]: t is its   *)
(* kind, cls the model class of an instance (or the exception class of a   *)
(* raise), v its content.                                                  *)

JStr(x) == [t |-> "str", cls |-> "", v |-> x]
JInt(n) == [t |-> "int", cls |-> "", v |-> n]
JNull == [t |-> "null", cls |-> "", v |-> 0]
JList(q) == [t |-> "list", cls |-> "", v |-> q]        \* q: a sequence of values
JObj(f) == [t |-> "obj", cls |-> "", v |-> f]          \* f: a function from keys to values
PySet(S) == [t |-> "set", cls |-> "", v |-> S]         \* S: a set of values
Inst(c, f) == [t |-> "inst", cls |-> c, v |-> f]       \* f: the instance's __dict__
Raise(e, what) == [t |-> "raise", cls |-> e, v |-> what]
Nothing == [t |-> "nothing", cls |-> "", v |-> 0]      \* not computed yet

Raised(x) == x.t = "raise"

\* the state of the components a behaviour does not exercise
IdleDec ==
    /\ model = ""
    /\ payload = Nothing
    /\ constructed = Nothing
    /\ validated = Nothing

IdleVer ==
    /\ env_var = <<>>
    /\ global_default = Nothing
    /\ agent_version = Nothing
    /\ task_version = Nothing
    /\ params = Nothing
    /\ request_version = Nothing

\* no call of WorkflowAIClient.run was made
NotCalled == [t |-> "notcalled", cls |-> "", v |-> 0]

IdleRun ==
    /\ run_stream = FALSE
    /\ max_retry_count = 0
    /\ retry_delay = 0
    /\ max_retry_delay = 0
    /\ attempt = 0
    /\ delay = 0
    /\ slept = <<>>
    /\ seen = <<>>
    /\ outcome = NotCalled

IdleAgent ==
    /\ agent_call = Nothing
    /\ agent_state = Nothing
    /\ agent_log = <<>>
    /\ agent_outcome = NotCalled

IdleConc == gens = <<>>

IdleReg ==
    /\ task = Nothing
    /\ callers = <<>>
    /\ requests = <<>>

\* nothing else of the client is in use
IdleRest == IdleConc /\ IdleReg

IdleApi ==
    /\ api_op = ""
    /\ api_pc = "idle"
    /\ api_seen = <<>>
    /\ api_yielded = <<>>
    /\ api_outcome = NotCalled

IdleSse ==
    /\ payloads = <<>>
    /\ stream = <<>>
    /\ pos = 0
    /\ oneByOne = TRUE
    /\ data = <<>>
    /\ in_data = FALSE
    /\ frames = <<>>
    /\ leftover = FALSE
    /\ yielded = <<>>
    /\ status = 200
    /\ pc = "idle"

----------------------------------------------------------------------------
(* Frame reassembly: APIClient._wrap_sse                                   *)

\* The bytes a payload may be made of.  "x" is one character of the message and
\* NL a raw newline byte: the payload x..x (k >= 1 times) abbreviates the compact
\* JSON text {"a":"x..x"}, whose envelope is left out.
PayloadBytes == {"x", NL}

RECURSIVE SeqsUpTo(_, _)
SeqsUpTo(S, n) ==
    IF n = 0 THEN {<<>>}
    ELSE LET shorter == SeqsUpTo(S, n - 1)
         IN  shorter \cup {Append(s, x) : s \in shorter, x \in S}

Payloads == SeqsUpTo(PayloadBytes, MaxPayloadLen)

\* one frame on the wire: b"data: " + payload + b"\n\n"
WireFrame(p) == StartMarker \o p \o termination_chars

RECURSIVE Wire(_)
Wire(ps) == IF ps = <<>> THEN <<>> ELSE WireFrame(Head(ps)) \o Wire(Tail(ps))

\* _wrap_sse with the start marker looked for in the chunk instead of in the
\* buffer: a marker cut by a chunk boundary is never seen
WrapSseChunk_MarkerInChunk(d, ind, chunk) ==
    LET d1 == d \o chunk
    IN  IF ~ind /\ ~StartsWith(chunk, StartMarker)
        THEN [data |-> d1, in_data |-> FALSE, out |-> <<>>]
        ELSE LET d2 == IF ~ind THEN SubSeq(d1, Len(StartMarker) + 1, Len(d1)) ELSE d1
                 splits == Split(d2, Separator)
                 out1 == SubSeq(splits, 1, Len(splits) - 1)
                 d3 == splits[Len(splits)]
             IN  IF EndsWith(d3, termination_chars)
                 THEN [data |-> <<>>, in_data |-> FALSE,
                       out |-> Append(out1, SubSeq(d3, 1, Len(d3) - Len(termination_chars)))]
                 ELSE [data |-> d3, in_data |-> TRUE, out |-> out1]

\* _wrap_sse yielding the buffer as soon as it ends with one newline byte
WrapSseChunk_EarlyYield(d, ind, chunk) ==
    LET d1 == d \o chunk
    IN  IF ~ind /\ ~StartsWith(d1, StartMarker)
        THEN [data |-> d1, in_data |-> FALSE, out |-> <<>>]
        ELSE LET d2 == IF ~ind THEN SubSeq(d1, Len(StartMarker) + 1, Len(d1)) ELSE d1
                 splits == Split(d2, Separator)
                 out1 == SubSeq(splits, 1, Len(splits) - 1)
                 d3 == splits[Len(splits)]
             IN  IF EndsWith(d3, <<NL>>)
                 THEN [data |-> <<>>, in_data |-> FALSE,
                       out |-> Append(out1, SubSeq(d3, 1, Len(d3) - 1))]
                 ELSE [data |-> d3, in_data |-> TRUE, out |-> out1]

\* _wrap_sse without the split at the separator: frames come out only when
\* the buffer ends with the terminator
WrapSseChunk_NoSplit(d, ind, chunk) ==
    LET d1 == d \o chunk
    IN  IF ~ind /\ ~StartsWith(d1, StartMarker)
        THEN [data |-> d1, in_data |-> FALSE, out |-> <<>>]
        ELSE LET d2 == IF ~ind THEN SubSeq(d1, Len(StartMarker) + 1, Len(d1)) ELSE d1
             IN  IF EndsWith(d2, termination_chars)
                 THEN [data |-> <<>>, in_data |-> FALSE,
                       out |-> Split(SubSeq(d2, 1, Len(d2) - Len(termination_chars)), Separator)]
                 ELSE [data |-> d2, in_data |-> TRUE, out |-> <<>>]

\* _wrap_sse dropping the bytes that precede the first "data: " of the buffer
WrapSseChunk_SkipForeign(d, ind, chunk) ==
    LET d0 == d \o chunk
        at == FindFrom(d0, StartMarker, 1)
        d1 == IF ~ind /\ at > 1 THEN SubSeq(d0, at, Len(d0)) ELSE d0
    IN  IF ~ind /\ ~StartsWith(d1, StartMarker)
        THEN [data |-> d1, in_data |-> FALSE, out |-> <<>>]
        ELSE LET d2 == IF ~ind THEN SubSeq(d1, Len(StartMarker) + 1, Len(d1)) ELSE d1
                 splits == Split(d2, Separator)
                 out1 == SubSeq(splits, 1, Len(splits) - 1)
                 d3 == splits[Len(splits)]
             IN  IF EndsWith(d3, termination_chars)
                 THEN [data |-> <<>>, in_data |-> FALSE,
                       out |-> Append(out1, SubSeq(d3, 1, Len(d3) - Len(termination_chars)))]
                 ELSE [data |-> d3, in_data |-> TRUE, out |-> out1]

\* One iteration of the `async for chunk in raw` loop of _wrap_sse, started with
\* the locals (d, ind) and given `chunk`: the locals after it and the frames it
\* yields, in order.
WrapSseChunk(d, ind, chunk) ==
    LET d1 == d \o chunk
    IN  IF ~ind /\ ~StartsWith(d1, StartMarker)
        THEN \* wait for the next chunk
             [data |-> d1, in_data |-> FALSE, out |-> <<>>]
        ELSE LET d2 == IF ~ind THEN SubSeq(d1, Len(StartMarker) + 1, Len(d1)) ELSE d1
                 splits == Split(d2, Separator)
                 out1 == SubSeq(splits, 1, Len(splits) - 1)
                 d3 == splits[Len(splits)]
             IN  IF EndsWith(d3, termination_chars)
                 THEN [data |-> <<>>, in_data |-> FALSE,
                       out |-> Append(out1, SubSeq(d3, 1, Len(d3) - Len(termination_chars)))]
                 ELSE [data |-> d3, in_data |-> TRUE, out |-> out1]

\* the frames _wrap_sse yields when the whole of s arrives as a single chunk
SingleChunkFrames(s) == IF s = <<>> THEN <<>> ELSE WrapSseChunk(<<>>, FALSE, s).out

InitWire ==
    /\ payloads \in UNION {[1..n -> Payloads] : n \in 0..MaxFrames}
    /\ stream = Wire(payloads)
    /\ pos = 0
    /\ oneByOne = TRUE
    /\ data = <<>>
    /\ in_data = FALSE
    /\ frames = <<>>
    /\ leftover = FALSE
    /\ yielded = <<>>

InitSse ==
    /\ InitWire
    /\ status = 200
    /\ pc = "recv"
    /\ IdleDec
    /\ IdleVer
    /\ IdleRun
    /\ IdleAgent
    /\ IdleApi
    /\ IdleRest

\* the transport delivers the next n bytes as one chunk; _wrap_sse runs one
\* iteration of its loop and the consumer takes every frame it yields
SseChunk(n) ==
    /\ pc = "recv"
    /\ pos + n <= Len(stream)
    /\ LET r == WrapSseChunk(data, in_data, SubSeq(stream, pos + 1, pos + n))
       IN  /\ data' = r.data
           /\ in_data' = r.in_data
           /\ frames' = frames \o r.out
    /\ pos' = pos + n
    /\ oneByOne' = (oneByOne /\ n = 1)
    /\ UNCHANGED <<payloads, stream, leftover, yielded, status, pc>>
    /\ UNCHANGED notSseVars

\* the transport signals the end of the stream: the loop ends, and bytes still
\* in the buffer are only logged
SseEnd ==
    /\ pc = "recv"
    /\ pos = Len(stream)
    /\ leftover' = (data # <<>>)
    /\ pc' = "done"
    /\ UNCHANGED <<payloads, stream, pos, oneByOne, data, in_data, frames, yielded, status>>
    /\ UNCHANGED notSseVars

NextSse == (\E n \in 1..Len(stream) : SseChunk(n)) \/ SseEnd

SpecSse == InitSse /\ [][NextSse]_vars

----------------------------------------------------------------------------
(* APIClient.stream                                                        *)

RECURSIVE StripLeft(_)
StripLeft(s) == IF s # <<>> /\ Head(s) = NL THEN StripLeft(Tail(s)) ELSE s

RECURSIVE StripRight(_)
StripRight(s) ==
    IF s # <<>> /\ s[Len(s)] = NL THEN StripRight(SubSeq(s, 1, Len(s) - 1)) ELSE s

\* returns.model_validate_json(chunk) for a model with the one field a: str.
\* JSON allows whitespace around the document, nothing else: no empty text, no
\* raw newline inside the string, no second document.
model_validate_json(chunk) ==
    LET doc == StripRight(StripLeft(chunk))
    IN  IF doc # <<>> /\ \A i \in 1..Len(doc) : doc[i] = "x"
        THEN [ok |-> TRUE, obj |-> [a |-> doc]]
        ELSE [ok |-> FALSE, obj |-> [a |-> <<>>]]

\* response.is_success
is_success(code) == code >= 200 /\ code < 300

StatusCodes == {200, 404}

\* stream with a frame that fails to validate skipped instead of raised
RECURSIVE StreamFrames_SkipInvalid(_)
StreamFrames_SkipInvalid(fs) ==
    IF fs = <<>> THEN [objs |-> <<>>, taken |-> 0, raised |-> FALSE]
    ELSE LET v == model_validate_json(Head(fs))
             rest == StreamFrames_SkipInvalid(Tail(fs))
         IN  [objs |-> (IF v.ok THEN <<v.obj>> ELSE <<>>) \o rest.objs,
              taken |-> 1 + rest.taken, raised |-> FALSE]

\* the `async for chunk in self._wrap_sse(...)` loop of stream over the frames fs
\* of one iteration of _wrap_sse: the objects yielded before the first frame that
\* fails to validate, and whether one failed
RECURSIVE StreamFrames(_)
StreamFrames(fs) ==
    IF fs = <<>> THEN [objs |-> <<>>, taken |-> 0, raised |-> FALSE]
    ELSE LET v == model_validate_json(Head(fs))
         IN  IF ~v.ok THEN [objs |-> <<>>, taken |-> 1, raised |-> TRUE]
             ELSE LET rest == StreamFrames(Tail(fs))
                  IN  [objs |-> <<v.obj>> \o rest.objs, taken |-> 1 + rest.taken,
                       raised |-> rest.raised]

InitStream ==
    /\ InitWire
    /\ status \in StatusCodes
    /\ pc = "open"
    /\ IdleDec
    /\ IdleVer
    /\ IdleRun
    /\ IdleAgent
    /\ IdleApi
    /\ IdleRest

\* the response headers arrive: a response that is not a success is read and
\* raise_for_status raises before any frame is taken
StreamOpen ==
    /\ pc = "open"
    /\ pc' = IF is_success(status) THEN "recv" ELSE "raised"
    /\ UNCHANGED <<payloads, stream, pos, oneByOne, data, in_data, frames, leftover, yielded, status>>
    /\ UNCHANGED notSseVars

\* the next n bytes arrive as one chunk: _wrap_sse yields its frames one by one
\* and stream validates and yields each, raising at the first that fails
StreamChunk(n) ==
    /\ pc = "recv"
    /\ pos + n <= Len(stream)
    /\ LET r == WrapSseChunk(data, in_data, SubSeq(stream, pos + 1, pos + n))
           d == StreamFrames(r.out)
       IN  /\ data' = r.data
           /\ in_data' = r.in_data
           /\ frames' = frames \o SubSeq(r.out, 1, d.taken)
           /\ yielded' = yielded \o d.objs
           /\ pc' = IF d.raised THEN "raised" ELSE "recv"
    /\ pos' = pos + n
    /\ oneByOne' = (oneByOne /\ n = 1)
    /\ UNCHANGED <<payloads, stream, leftover, status>>
    /\ UNCHANGED notSseVars

StreamEnd ==
    /\ pc = "recv"
    /\ pos = Len(stream)
    /\ leftover' = (data # <<>>)
    /\ pc' = "done"
    /\ UNCHANGED <<payloads, stream, pos, oneByOne, data, in_data, frames, yielded, status>>
    /\ UNCHANGED notSseVars

NextStream == StreamOpen \/ (\E n \in 1..Len(stream) : StreamChunk(n)) \/ StreamEnd

SpecStream == InitStream /\ [][NextStream]_vars

----------------------------------------------------------------------------
(* Claims on frame reassembly                                              *)

\* the stream is well formed in the sense of C1: no payload contains b"\n\n"
WellFormed == \A i \in 1..Len(payloads) : ~Contains(payloads[i], termination_chars)

\* no payload ends with a newline byte
NoTrailingNewline ==
    \A i \in 1..Len(payloads) : payloads[i] = <<>> \/ payloads[i][Len(payloads[i])] # NL

\* C1 as stated: for every well-formed stream (no payload contains "\n\n") and
\* every chunking, the frames yielded are those yielded for a single chunk.
C1_AsStated ==
    (pc = "done" /\ WellFormed) => frames = SingleChunkFrames(stream)

\* C1 amended: for every stream whose payloads neither contain "\n\n" nor end
\* with "\n", every chunking yields the frames a single chunk yields, which are
\* the payloads the server wrote.
C1_ChunkSplitInvariance ==
    (pc = "done" /\ WellFormed /\ NoTrailingNewline) =>
        /\ frames = SingleChunkFrames(stream)
        /\ frames = payloads

\* two frames delivered one byte per chunk, so that chunks end inside "data: "
\* and inside "\n\ndata: "
C1_Witness ==
    /\ pc = "done" /\ WellFormed /\ NoTrailingNewline
    /\ oneByOne /\ Len(payloads) = 2
    /\ payloads[1] # <<>> /\ payloads[2] # <<>> /\ payloads[1] # payloads[2]
    /\ frames = payloads

\* C2: the objects stream has yielded are, in order, the decodes of the first
\* frames the server wrote: none is repeated, skipped or reordered; and when the
\* stream ends normally every frame has been yielded.
C2_WireOrder ==
    /\ Len(yielded) <= Len(payloads)
    /\ \A i \in 1..Len(yielded) :
          /\ model_validate_json(payloads[i]).ok
          /\ yielded[i] = model_validate_json(payloads[i]).obj
    /\ (pc = "done" /\ WellFormed /\ NoTrailingNewline) => Len(yielded) = Len(payloads)

\* a chunk holding one frame was followed by chunks holding the second, and two
\* different objects came out in wire order
C2_Witness ==
    /\ pc = "done" /\ ~oneByOne
    /\ Len(yielded) = 2 /\ yielded[1] # yielded[2]
    /\ yielded[1] = model_validate_json(payloads[1]).obj

----------------------------------------------------------------------------
(* Tolerant decoding: construct_model_recursive                            *)

\* Type annotations: kind is the annotation's shape, cls the model class of a
\* BaseModel subclass, args its type arguments (typing.get_args).
AnnStr == [kind |-> "str", cls |-> "", args |-> <<>>]
AnnInt == [kind |-> "int", cls |-> "", args |-> <<>>]
AnnAny == [kind |-> "any", cls |-> "", args |-> <<>>]
AnnNone == [kind |-> "none", cls |-> "", args |-> <<>>]
AnnModel(c) == [kind |-> "model", cls |-> c, args |-> <<>>]
AnnList(a) == [kind |-> "list", cls |-> "", args |-> <<a>>]
AnnSet(a) == [kind |-> "set", cls |-> "", args |-> <<a>>]
AnnDict(k, a) == [kind |-> "dict", cls |-> "", args |-> <<k, a>>]
AnnOptional(a) == [kind |-> "union", cls |-> "", args |-> <<a, AnnNone>>]

\* pydantic FieldInfo: a required field, a field with a default, a field with
\* an alias
Required(n, a) ==
    [name |-> n, alias |-> "", annotation |-> a, required |-> TRUE, default |-> JNull]
Defaulted(n, a, d) ==
    [name |-> n, alias |-> "", annotation |-> a, required |-> FALSE, default |-> d]
Aliased(n, al, a) ==
    [name |-> n, alias |-> al, annotation |-> a, required |-> TRUE, default |-> JNull]

\* The model classes of the tests, as model.model_fields
Models ==
    {"NestedModel", "HashableNested", "SimpleModel", "SomeOptionalFields", "OuterModel",
     "ListOfModels", "SetOfModels", "DictOfModels", "ListOfStrings", "AliasModel"}

model_fields(c) ==
    CASE c = "NestedModel" ->
            <<Required("name", AnnStr), Required("field2", AnnStr)>>
      [] c = "HashableNested" ->
            <<Defaulted("name", AnnStr, JStr("1")), Required("field2", AnnStr)>>
      [] c = "SimpleModel" ->
            <<Required("name1", AnnStr), Required("name2", AnnStr), Required("name3", AnnInt),
              Required("bla", AnnDict(AnnStr, AnnAny)), Required("opt", AnnOptional(AnnStr))>>
      [] c = "SomeOptionalFields" ->
            <<Required("name1", AnnStr), Defaulted("name2", AnnStr, JStr("blibly")),
              Defaulted("list1", AnnList(AnnStr), JList(<<JStr("1")>>))>>
      [] c = "OuterModel" ->
            <<Required("field1", AnnStr), Required("nested", AnnModel("NestedModel"))>>
      [] c = "ListOfModels" ->
            <<Required("models", AnnList(AnnModel("NestedModel")))>>
      [] c = "SetOfModels" ->
            <<Required("models", AnnSet(AnnModel("HashableNested")))>>
      [] c = "DictOfModels" ->
            <<Required("models", AnnDict(AnnStr, AnnModel("NestedModel")))>>
      [] c = "ListOfStrings" ->
            <<Required("strings", AnnList(AnnStr))>>
      [] c = "AliasModel" ->
            <<Aliased("message", "message_alias", AnnStr)>>
      [] c = "OpaqueModel" ->
            \* by_int: dict[int, NestedModel]; strings: list[str]; plain: str;
            \* untyped: no annotation; opt: Optional[NestedModel]
            <<Required("by_int", AnnDict(AnnInt, AnnModel("NestedModel"))),
              Required("strings", AnnList(AnnStr)),
              Required("plain", AnnStr),
              Required("untyped", AnnNone),
              Required("opt", AnnOptional(AnnModel("NestedModel")))>>

FieldNames(c) == {model_fields(c)[i].name : i \in 1..Len(model_fields(c))}

\* model.model_fields[k]
FieldOf(c, k) ==
    LET fs == model_fields(c)
    IN  fs[CHOOSE i \in 1..Len(fs) : fs[i].name = k]

\* _safe_issubclass(annotation, BaseModel)
IsBaseModel(a) == a.kind = "model"

\* get_origin(annotation) is set and is a subclass of Collection (a Mapping is one)
OriginIsCollection(a) == a.kind \in {"list", "set", "dict"}

\* get_origin(annotation) is set and is a subclass of Mapping
OriginIsMapping(a) == a.kind = "dict"

\* BaseModel.model_construct(None, **values): every value is taken as given, a
\* field that is not given takes its default if it has one, and a required field
\* that is not given is left unset.  (The keys of values are field names here.)
\* model_construct in which a declared default is kept over a value given
model_construct_DefaultsWin(c, values) ==
    LET fs == model_fields(c)
        defaulted == {fs[i].name : i \in {j \in 1..Len(fs) : ~fs[j].required}}
    IN  Inst(c, [f \in (DOMAIN values) \cup defaulted |->
                    IF f \in defaulted THEN FieldOf(c, f).default ELSE values[f]])

model_construct(c, values) ==
    LET fs == model_fields(c)
        defaulted == {fs[i].name : i \in {j \in 1..Len(fs) : ~fs[j].required}}
    IN  Inst(c, [f \in (DOMAIN values) \cup defaulted |->
                    IF f \in DOMAIN values THEN values[f] ELSE FieldOf(c, f).default])

\* the first exception among the values of f, in some order of its keys
FirstRaised(f) == f[CHOOSE k \in DOMAIN f : Raised(f[k])]

RECURSIVE construct_model_recursive(_, _)
RECURSIVE _construct_for_annotation(_, _)
RECURSIVE _construct_object(_, _)
RECURSIVE _construct_list(_, _)

\* _construct_list that leaves the elements of a list of models undecoded
_construct_list_Shallow(annotation, pl) == pl

_construct_list(annotation, pl) ==
    IF ~OriginIsCollection(annotation) THEN pl
    ELSE IF annotation.args = <<>> THEN pl
    ELSE IF Len(annotation.args) = 1 /\ IsBaseModel(annotation.args[1])
    THEN LET items == [i \in 1..Len(pl.v) |->
                          construct_model_recursive(annotation.args[1].cls, pl.v[i])]
         IN  IF \E i \in 1..Len(items) : Raised(items[i]) THEN FirstRaised(items)
             ELSE IF annotation.kind = "set"
             THEN PySet({items[i] : i \in 1..Len(items)})
             ELSE JList(items)
    ELSE pl

\* _construct_object without the test of the key type
_construct_object_AnyKey(annotation, pl) ==
    IF IsBaseModel(annotation) THEN construct_model_recursive(annotation.cls, pl)
    ELSE IF ~OriginIsMapping(annotation) THEN pl
    ELSE IF Len(annotation.args) # 2 THEN pl
    ELSE LET vals == [k \in DOMAIN pl.v |->
                         _construct_for_annotation(annotation.args[2], pl.v[k])]
         IN  IF \E k \in DOMAIN vals : Raised(vals[k]) THEN FirstRaised(vals)
             ELSE JObj(vals)

_construct_object(annotation, pl) ==
    IF IsBaseModel(annotation) THEN construct_model_recursive(annotation.cls, pl)
    ELSE IF ~OriginIsMapping(annotation) THEN pl
    ELSE IF Len(annotation.args) # 2 THEN pl
    ELSE IF annotation.args[1] # AnnStr THEN pl
    ELSE LET vals == [k \in DOMAIN pl.v |->
                         _construct_for_annotation(annotation.args[2], pl.v[k])]
         IN  IF \E k \in DOMAIN vals : Raised(vals[k]) THEN FirstRaised(vals)
             ELSE JObj(vals)

_construct_for_annotation(annotation, pl) ==
    IF annotation = AnnNone THEN pl
    ELSE IF pl.t = "obj" THEN _construct_object(annotation, pl)
    ELSE IF pl.t = "list" THEN _construct_list(annotation, pl)
    ELSE pl

\* construct_model_recursive skipping the keys the model does not declare
construct_model_recursive_SkipUnknown(c, pl) ==
    IF pl.t # "obj" THEN Raise("AttributeError", "items")
    ELSE LET mapped == [k \in (DOMAIN pl.v) \cap FieldNames(c) |->
                           _construct_for_annotation(FieldOf(c, k).annotation, pl.v[k])]
         IN  IF \E k \in DOMAIN mapped : Raised(mapped[k]) THEN FirstRaised(mapped)
             ELSE model_construct(c, mapped)

construct_model_recursive(c, pl) ==
    IF pl.t # "obj" THEN Raise("AttributeError", "items")
    ELSE IF \E k \in DOMAIN pl.v : k \notin FieldNames(c)
    THEN Raise("KeyError", CHOOSE k \in DOMAIN pl.v : k \notin FieldNames(c))
    ELSE LET mapped == [k \in DOMAIN pl.v |->
                           _construct_for_annotation(FieldOf(c, k).annotation, pl.v[k])]
         IN  IF \E k \in DOMAIN mapped : Raised(mapped[k]) THEN FirstRaised(mapped)
             ELSE model_construct(c, mapped)

\* BaseModel.model_validate(payload), the strict validation the tests compare
\* with: a field is read under its alias if it has one, a missing required
\* field and a value of the wrong type are errors, undeclared keys are ignored.
\* The error names the field and the value received.
RECURSIVE model_validate(_, _)
RECURSIVE validate_annotation(_, _, _)

validate_annotation(loc, a, x) ==
    LET bad == Raise("ValidationError", [loc |-> loc, input |-> x])
    IN  CASE a.kind = "str" -> IF x.t = "str" THEN x ELSE bad
          [] a.kind = "int" -> IF x.t = "int" THEN x ELSE bad
          [] a.kind = "any" -> x
          [] a.kind = "none" -> IF x.t = "null" THEN x ELSE bad
          [] a.kind = "union" ->
                IF x.t = "null" THEN x ELSE validate_annotation(loc, a.args[1], x)
          [] a.kind = "model" ->
                IF x.t = "obj" THEN model_validate(a.cls, x) ELSE bad
          [] a.kind \in {"list", "set"} ->
                IF x.t # "list" THEN bad
                ELSE LET items == [i \in 1..Len(x.v) |->
                                      validate_annotation(loc, a.args[1], x.v[i])]
                     IN  IF \E i \in 1..Len(items) : Raised(items[i]) THEN FirstRaised(items)
                         ELSE IF a.kind = "set"
                         THEN PySet({items[i] : i \in 1..Len(items)})
                         ELSE JList(items)
          [] a.kind = "dict" ->
                IF x.t # "obj" THEN bad
                ELSE LET vals == [k \in DOMAIN x.v |->
                                     validate_annotation(loc, a.args[2], x.v[k])]
                     IN  IF \E k \in DOMAIN vals : Raised(vals[k]) THEN FirstRaised(vals)
                         ELSE JObj(vals)

model_validate(c, pl) ==
    IF pl.t # "obj" THEN Raise("ValidationError", [loc |-> c, input |-> pl])
    ELSE LET fs == model_fields(c)
             key(i) == IF fs[i].alias # "" THEN fs[i].alias ELSE fs[i].name
             vals == [i \in 1..Len(fs) |->
                         IF key(i) \in DOMAIN pl.v
                         THEN validate_annotation(fs[i].name, fs[i].annotation, pl.v[key(i)])
                         ELSE IF ~fs[i].required THEN fs[i].default
                         ELSE Raise("ValidationError", [loc |-> fs[i].name, input |-> Nothing])]
         IN  IF \E i \in 1..Len(fs) : Raised(vals[i]) THEN FirstRaised(vals)
             ELSE Inst(c, [f \in FieldNames(c) |->
                              vals[CHOOSE i \in 1..Len(fs) : fs[i].name = f]])

----------------------------------------------------------------------------
(* The payloads decoded: every JSON object over the declared keys of a     *)
(* model (and, where one is listed, an alias or an undeclared key), each   *)
(* key absent or holding one of a few values of the right or wrong type.   *)

DictKeys == <<"k1", "k2", "k3", "k4">>

\* keys a payload may hold besides the field names
OtherKeys(c) ==
    CASE c = "NestedModel" -> <<"undeclared">>
      [] c = "AliasModel" -> <<"message_alias">>
      [] OTHER -> <<>>

PayloadKeys(c) ==
    [i \in 1..Len(model_fields(c)) |-> model_fields(c)[i].name] \o OtherKeys(c)

\* f with key k set to x
Extend(f, k, x) == [j \in (DOMAIN f) \cup {k} |-> IF j = k THEN x ELSE f[j]]

RECURSIVE Samples(_)
RECURSIVE ObjSamples(_)
RECURSIVE ObjsOver(_, _)
RECURSIVE DictsOver(_, _)

\* the objects over the keys ks of model c
ObjsOver(c, ks) ==
    IF ks = <<>> THEN {<<>>}
    ELSE LET rest == ObjsOver(c, Tail(ks))
             k == Head(ks)
             xs == IF k \in FieldNames(c) THEN Samples(FieldOf(c, k).annotation)
                   ELSE {JStr("hello")}
         IN  rest \cup {Extend(f, k, x) : f \in rest, x \in xs}

ObjSamples(c) == {JObj(f) : f \in ObjsOver(c, PayloadKeys(c))}

\* the str-keyed mappings over the keys ks with values in xs
DictsOver(ks, xs) ==
    IF ks = <<>> THEN {<<>>}
    ELSE LET rest == DictsOver(Tail(ks), xs)
         IN  rest \cup {Extend(f, Head(ks), x) : f \in rest, x \in xs}

Samples(a) ==
    CASE a.kind = "str" -> {JStr("John"), JInt(1)}
      [] a.kind = "int" -> {JInt(7)}
      [] a.kind = "any" -> {JStr("any")}
      [] a.kind = "none" -> {JNull}
      [] a.kind = "union" -> {JNull} \cup Samples(a.args[1])
      [] a.kind = "model" -> ObjSamples(a.cls)
      [] a.kind \in {"list", "set"} ->
            IF IsBaseModel(a.args[1])
            THEN {JList(q) : q \in SeqsUpTo(ObjSamples(a.args[1].cls), MaxItems)}
            ELSE {JList(<<>>), JList(<<JStr("a"), JStr("b")>>)}
      [] a.kind = "dict" ->
            IF IsBaseModel(a.args[2])
            THEN {JObj(f) : f \in DictsOver(SubSeq(DictKeys, 1, MaxItems),
                                            ObjSamples(a.args[2].cls))}
            ELSE {JObj(<<>>), JObj([k \in {"k1"} |-> JStr("any")])}

InitDecode ==
    /\ IdleSse
    /\ IdleVer
    /\ IdleRun
    /\ IdleAgent
    /\ IdleApi
    /\ IdleRest
    /\ model \in Models
    /\ payload \in ObjSamples(model)
    /\ constructed = Nothing
    /\ validated = Nothing

\* the tolerant decode of the payload
Construct ==
    /\ payload # Nothing
    /\ constructed = Nothing
    /\ constructed' = construct_model_recursive(model, payload)
    /\ UNCHANGED <<model, payload, validated>>
    /\ UNCHANGED notDecVars

\* the strict validation of the same payload
Validate ==
    /\ payload # Nothing
    /\ validated = Nothing
    /\ validated' = model_validate(model, payload)
    /\ UNCHANGED <<model, payload, constructed>>
    /\ UNCHANGED notDecVars

NextDecode == Construct \/ Validate

SpecDecode == InitDecode /\ [][NextDecode]_vars

----------------------------------------------------------------------------
(* Claims on tolerant decoding                                             *)

Restrict(f, K) == [k \in K |-> f[k]]

\* x has the shape a, fields of nested models being allowed to be absent: what
\* a partial payload of the right type looks like
RECURSIVE Conforms(_, _)
Conforms(a, x) ==
    CASE a.kind = "str" -> x.t = "str"
      [] a.kind = "int" -> x.t = "int"
      [] a.kind = "any" -> TRUE
      [] a.kind = "none" -> x.t = "null"
      [] a.kind = "union" -> x.t = "null" \/ Conforms(a.args[1], x)
      [] a.kind = "model" ->
            /\ x.t = "obj"
            /\ DOMAIN x.v \subseteq FieldNames(a.cls)
            /\ \A k \in DOMAIN x.v : Conforms(FieldOf(a.cls, k).annotation, x.v[k])
      [] a.kind \in {"list", "set"} ->
            x.t = "list" /\ \A i \in 1..Len(x.v) : Conforms(a.args[1], x.v[i])
      [] a.kind = "dict" ->
            x.t = "obj" /\ \A k \in DOMAIN x.v : Conforms(a.args[2], x.v[k])

\* every key of x, at every depth that is decoded as a model, is a declared
\* field name (values may still have the wrong type)
RECURSIVE DeclaredKeysOnly(_, _)
DeclaredKeysOnly(a, x) ==
    CASE a.kind = "model" ->
            x.t = "obj" =>
                /\ DOMAIN x.v \subseteq FieldNames(a.cls)
                /\ \A k \in DOMAIN x.v : DeclaredKeysOnly(FieldOf(a.cls, k).annotation, x.v[k])
      [] a.kind \in {"list", "set"} ->
            x.t = "list" => \A i \in 1..Len(x.v) : DeclaredKeysOnly(a.args[1], x.v[i])
      [] a.kind = "dict" ->
            x.t = "obj" => \A k \in DOMAIN x.v : DeclaredKeysOnly(a.args[2], x.v[k])
      [] OTHER -> TRUE

\* the zero value of a declared shape
RECURSIVE ZeroValue(_)
ZeroValue(a) ==
    CASE a.kind = "str" -> JStr("")
      [] a.kind = "int" -> JInt(0)
      [] a.kind \in {"any", "none", "union"} -> JNull
      [] a.kind = "list" -> JList(<<>>)
      [] a.kind = "set" -> PySet({})
      [] a.kind = "dict" -> JObj(<<>>)
      [] a.kind = "model" ->
            Inst(a.cls, [f \in FieldNames(a.cls) |->
                            IF FieldOf(a.cls, f).required
                            THEN ZeroValue(FieldOf(a.cls, f).annotation)
                            ELSE FieldOf(a.cls, f).default])

\* what C3 expects in an absent field
ExpectedWhenAbsent(c, f) ==
    IF FieldOf(c, f).required THEN ZeroValue(FieldOf(c, f).annotation)
    ELSE FieldOf(c, f).default

\* C3: decoding a payload of the right type in which declared fields are absent
\* (the empty payload included) does not fail, and every absent field holds its
\* declared default if it has one and the zero value of its shape otherwise.
C3_AbsentFieldsZeroed ==
    (constructed # Nothing /\ Conforms(AnnModel(model), payload)) =>
        /\ ~Raised(constructed)
        /\ \A f \in FieldNames(model) \ DOMAIN payload.v :
              /\ f \in DOMAIN constructed.v
              /\ constructed.v[f] = ExpectedWhenAbsent(model, f)

\* the fields of the payload whose value is a scalar of the wrong type
Mismatched ==
    {k \in DOMAIN payload.v \cap FieldNames(model) :
        /\ FieldOf(model, k).annotation.kind \in {"str", "int"}
        /\ ~Conforms(FieldOf(model, k).annotation, payload.v[k])}

\* C4: decoding a payload in which a present field holds a value of the wrong
\* type (a number where a string is declared) raises a validation error that
\* names the field and the value received.
C4_MismatchRaises ==
    (constructed # Nothing /\ DeclaredKeysOnly(AnnModel(model), payload) /\ Mismatched # {}) =>
        /\ Raised(constructed)
        /\ constructed.cls = "ValidationError"
        /\ constructed.v.loc \in Mismatched
        /\ constructed.v.input = payload.v[constructed.v.loc]

\* the instance the tolerant rule makes of the object o for a model c whose
\* fields are scalars: the fields given hold the values given, a field not
\* given holds its default if it has one and is unset otherwise
TolerantInstance(c, o) ==
    LET given == DOMAIN o.v
        defaulted == {f \in FieldNames(c) : ~FieldOf(c, f).required}
    IN  Inst(c, [f \in given \cup defaulted |->
                    IF f \in given THEN o.v[f] ELSE FieldOf(c, f).default])

\* C5: a value for a field declared as a nested model, a list or set of nested
\* models or a str-keyed mapping of nested models is decoded into instances of
\* that model, one for each element or value and each from its own payload alone
\* (a set holds the instances of all its payload elements, a list holds them in
\* order); elements that miss fields do not fail.
C5_NestedDecoded ==
    (constructed # Nothing /\ DeclaredKeysOnly(AnnModel(model), payload)) =>
        /\ ~Raised(constructed)
        /\ \A k \in DOMAIN payload.v :
              LET a == FieldOf(model, k).annotation
                  x == payload.v[k]
                  r == constructed.v[k]
              IN  /\ (a.kind = "model" /\ x.t = "obj") => r = TolerantInstance(a.cls, x)
                  /\ (a.kind = "list" /\ IsBaseModel(a.args[1]) /\ x.t = "list") =>
                        /\ r.t = "list"
                        /\ Len(r.v) = Len(x.v)
                        /\ \A i \in 1..Len(x.v) : r.v[i] = TolerantInstance(a.args[1].cls, x.v[i])
                  /\ (a.kind = "set" /\ IsBaseModel(a.args[1]) /\ x.t = "list") =>
                        /\ r.t = "set"
                        /\ r.v = {TolerantInstance(a.args[1].cls, x.v[i]) : i \in 1..Len(x.v)}
                  /\ (a.kind = "dict" /\ IsBaseModel(a.args[2]) /\ x.t = "obj") =>
                        /\ r.t = "obj"
                        /\ DOMAIN r.v = DOMAIN x.v
                        /\ \A j \in DOMAIN x.v : r.v[j] = TolerantInstance(a.args[2].cls, x.v[j])

\* a list of two nested payloads, the second missing a field, was decoded into
\* two different instances
C5_Witness ==
    /\ model = "ListOfModels"
    /\ constructed # Nothing /\ ~Raised(constructed)
    /\ "models" \in DOMAIN payload.v
    /\ Len(payload.v["models"].v) = 2
    /\ DOMAIN payload.v["models"].v[1].v = {"name", "field2"}
    /\ DOMAIN payload.v["models"].v[2].v = {"name"}
    /\ Len(constructed.v["models"].v) = 2
    /\ constructed.v["models"].v[2].t = "inst"
    /\ DOMAIN constructed.v["models"].v[2].v = {"name"}

\* C6: the decode of a payload agrees, on every field of any payload it is a
\* superset of, with the decode of that smaller payload; and a field that is
\* present holds the value given, not its default or zero value.
C6_MonotonicConvergence ==
    (constructed # Nothing /\ DeclaredKeysOnly(AnnModel(model), payload)) =>
        /\ \A K \in SUBSET DOMAIN payload.v :
              LET smaller == construct_model_recursive(model, JObj(Restrict(payload.v, K)))
              IN  /\ ~Raised(smaller)
                  /\ \A f \in K : smaller.v[f] = constructed.v[f]
        /\ \A f \in DOMAIN payload.v :
              FieldOf(model, f).annotation.kind \in {"str", "int"} =>
                  constructed.v[f] = payload.v[f]

\* a field with a declared default decodes to the default while it is absent
\* and to the value given once it is present
C6_Witness ==
    /\ model = "SomeOptionalFields"
    /\ constructed # Nothing /\ ~Raised(constructed)
    /\ DOMAIN payload.v = {"name1", "name2"}
    /\ payload.v["name2"] = JStr("John")
    /\ constructed.v["name2"] = JStr("John")
    /\ construct_model_recursive(model, JObj(Restrict(payload.v, {"name1"}))).v["name2"]
          = JStr("blibly")

\* the payload holds exactly the keys strict validation reads, at every depth:
\* it is the JSON object of a fully populated instance
RECURSIVE FullyPopulated(_, _)
FullyPopulated(a, x) ==
    CASE a.kind = "model" ->
            /\ x.t = "obj"
            /\ LET fs == model_fields(a.cls)
                   key(i) == IF fs[i].alias # "" THEN fs[i].alias ELSE fs[i].name
               IN  /\ DOMAIN x.v = {key(i) : i \in 1..Len(fs)}
                   /\ \A i \in 1..Len(fs) : FullyPopulated(fs[i].annotation, x.v[key(i)])
      [] a.kind \in {"list", "set"} ->
            x.t = "list" /\ \A i \in 1..Len(x.v) : FullyPopulated(a.args[1], x.v[i])
      [] a.kind = "dict" ->
            x.t = "obj" /\ \A k \in DOMAIN x.v : FullyPopulated(a.args[2], x.v[k])
      [] OTHER -> TRUE

\* C7: the tolerant decode of the JSON object of a fully populated instance
\* equals the instance, i.e. what strict validation of that object produces.
C7_RoundTrip ==
    (/\ constructed # Nothing /\ validated # Nothing
     /\ ~Raised(validated)
     /\ FullyPopulated(AnnModel(model), payload)) =>
        constructed = validated

----------------------------------------------------------------------------
(* Version reconciliation                                                  *)
(*                                                                         *)
(* A version is JNull (none), JStr (an alias), JInt (an iteration) or JObj *)
(* (a properties bag: a function from property names to values).          *)
(* Temperatures are in tenths: JInt(7) is 0.7 and JInt(0) is 0.            *)

\* the model added to a properties bag that names none
DEFAULT_MODEL == "gemini-1.5-pro-latest"

\* the properties of a version that are modelled
Properties == {"model", "temperature", "instructions"}

PropertyValues(k) ==
    CASE k = "model" -> {JStr("gpt-4o"), JStr("gpt-4o-latest")}
      [] k = "temperature" -> {JInt(0), JInt(7)}
      [] k = "instructions" -> {JStr("You are a helpful assistant.")}

Bags ==
    UNION {{b \in [S -> UNION {PropertyValues(k) : k \in Properties}] :
                \A k \in S : b[k] \in PropertyValues(k)} : S \in SUBSET Properties}

RemoteReferences == {JStr("staging"), JStr("production"), JInt(2)}

VersionReferences == RemoteReferences \cup {JObj(b) : b \in Bags}

\* the property overrides of a call: none, or a model and maybe more
Overrides == {<<>>} \cup {b \in Bags : "model" \in DOMAIN b}

\* values of WORKFLOWAI_DEFAULT_VERSION; <<>> when it is not set
EnvVars ==
    {<<>>, <<"p">>, <<"d", "e", "v">>, <<"s", "t", "a", "g", "i", "n", "g">>,
     <<"p", "r", "o", "d", "u", "c", "t", "i", "o", "n">>, <<"1">>, <<"1", "2">>}

Digits == <<"0", "1", "2", "3", "4", "5", "6", "7", "8", "9">>

IsDigit(c) == \E i \in DOMAIN Digits : Digits[i] = c

DigitValue(c) == (CHOOSE i \in DOMAIN Digits : Digits[i] = c) - 1

\* int(s) for a string of digits
RECURSIVE ParseInt(_)
ParseInt(s) ==
    IF s = <<>> THEN 0
    ELSE ParseInt(SubSeq(s, 1, Len(s) - 1)) * Len(Digits) + DigitValue(s[Len(s)])

\* the process-wide default: an environment name stands for itself, a string
\* of digits is an iteration, anything else (or nothing) is "production"
global_default_version_reference(e) ==
    IF e = <<"d", "e", "v">> THEN JStr("dev")
    ELSE IF e = <<"s", "t", "a", "g", "i", "n", "g">> THEN JStr("staging")
    ELSE IF e = <<"p", "r", "o", "d", "u", "c", "t", "i", "o", "n">> THEN JStr("production")
    ELSE IF e # <<>> /\ \A i \in 1..Len(e) : IsDigit(e[i]) THEN JInt(ParseInt(e))
    ELSE JStr("production")

\* the properties of a and of b; where both name a property, b's value
Merge(a, b) ==
    [k \in (DOMAIN a) \cup (DOMAIN b) |-> IF k \in DOMAIN b THEN b[k] ELSE a[k]]

\* _sanitize_version that takes a falsy property of the call (temperature 0)
\* as not given
_sanitize_version_FalsyDropped(agent_ver, global_def, version, overrides) ==
    LET Truthy(b) == Restrict(b, {k \in DOMAIN b : b[k] # JInt(0)})
        requested == IF version # JNull THEN version ELSE agent_ver
        chosen == IF requested # JNull THEN requested ELSE global_def
        remote == chosen.t \in {"str", "int"}
    IN  IF remote /\ overrides = <<>> THEN chosen
        ELSE IF remote THEN JObj(overrides)
        ELSE IF version = JNull /\ overrides = <<>> THEN chosen
        ELSE LET defaults == IF agent_ver.t = "obj" THEN agent_ver.v ELSE <<>>
                 merged == Merge(Merge(defaults, Truthy(chosen.v)), Truthy(overrides))
             IN  JObj(IF "model" \in DOMAIN merged THEN merged
                      ELSE Extend(merged, "model", JStr(DEFAULT_MODEL)))

\* _sanitize_version that sends a remote reference whatever is overridden
_sanitize_version_RemoteWins(agent_ver, global_def, version, overrides) ==
    LET requested == IF version # JNull THEN version ELSE agent_ver
        chosen == IF requested # JNull THEN requested ELSE global_def
    IN  IF chosen.t \in {"str", "int"} THEN chosen
        ELSE LET merged == Merge(chosen.v, overrides)
             IN  JObj(IF "model" \in DOMAIN merged THEN merged
                      ELSE Extend(merged, "model", JStr(DEFAULT_MODEL)))

\* Agent._sanitize_version: the version of the call, else the agent's, else the
\* process-wide default.  A remote reference goes out as it is unless
\* properties are overridden, in which case the overrides alone make the bag.
\* A bag given at call time or overridden is completed by the agent's default
\* properties it does not name and by the default model if it names no model.
_sanitize_version(agent_ver, global_def, version, overrides) ==
    LET requested == IF version # JNull THEN version ELSE agent_ver
        chosen == IF requested # JNull THEN requested ELSE global_def
        remote == chosen.t \in {"str", "int"}
    IN  IF remote /\ overrides = <<>> THEN chosen
        ELSE IF remote THEN JObj(overrides)
        ELSE IF version = JNull /\ overrides = <<>> THEN chosen
        ELSE LET defaults == IF agent_ver.t = "obj" THEN agent_ver.v ELSE <<>>
                 merged == Merge(Merge(defaults, chosen.v), overrides)
             IN  JObj(IF "model" \in DOMAIN merged THEN merged
                      ELSE Extend(merged, "model", JStr(DEFAULT_MODEL)))

\* f"environment={environment}"
EnvironmentAlias(environment) ==
    CASE environment = "dev" -> "environment=dev"
      [] environment = "production" -> "environment=production"

\* WorkflowAIClient.run with the task's own version sent whatever is passed
group_ref_TaskOnly(task_ver, version, environment, iteration) == task_ver

\* WorkflowAIClient.run that never falls back to the task's version
group_ref_NoFallback(task_ver, version, environment, iteration) ==
    IF version # JNull THEN version
    ELSE IF environment # "" THEN JStr(EnvironmentAlias(environment))
    ELSE JInt(iteration)

\* WorkflowAIClient.run: the version reference of the request
group_ref(task_ver, version, environment, iteration) ==
    IF version # JNull THEN version
    ELSE IF environment # "" THEN JStr(EnvironmentAlias(environment))
    ELSE IF iteration # 0 THEN JInt(iteration)
    ELSE task_ver

RunArgs(api, version, overrides, environment, iteration) ==
    [api |-> api, version |-> version, overrides |-> overrides,
     environment |-> environment, iteration |-> iteration]

InitVersion ==
    /\ IdleSse
    /\ IdleDec
    /\ IdleRun
    /\ IdleAgent
    /\ IdleApi
    /\ IdleRest
    /\ env_var \in EnvVars
    /\ global_default = global_default_version_reference(env_var)
    /\ agent_version \in {JNull} \cup VersionReferences
    /\ task_version \in {JStr("staging"), JInt(2), JObj([k \in {"model"} |-> JStr("gpt-4o")])}
    /\ params = Nothing
    /\ request_version = Nothing

\* Agent.run(input, version=..., model=..., ...): the version of the request
AgentRun(version, overrides) ==
    /\ request_version = Nothing
    /\ params' = RunArgs("agent", version, overrides, "", 0)
    /\ request_version' = _sanitize_version(agent_version, global_default, version, overrides)
    /\ UNCHANGED <<env_var, global_default, agent_version, task_version>>
    /\ UNCHANGED notVerVars

\* WorkflowAIClient.run(task, input, version, environment, iteration)
ClientRun(version, environment, iteration) ==
    /\ request_version = Nothing
    /\ params' = RunArgs("client", version, <<>>, environment, iteration)
    /\ request_version' = group_ref(task_version, version, environment, iteration)
    /\ UNCHANGED <<env_var, global_default, agent_version, task_version>>
    /\ UNCHANGED notVerVars

NextVersion ==
    \/ \E version \in {JNull} \cup VersionReferences, overrides \in Overrides :
          AgentRun(version, overrides)
    \/ \E version \in {JNull} \cup RemoteReferences, environment \in {"", "dev"},
          iteration \in {0, 3} :
          ClientRun(version, environment, iteration)

SpecVersion == InitVersion /\ [][NextVersion]_vars

----------------------------------------------------------------------------
(* Claims on version reconciliation                                        *)

Sent == request_version # Nothing

NoOverride == params.overrides = <<>>

CallProperties ==
    Merge(IF params.version.t = "obj" THEN params.version.v ELSE <<>>, params.overrides)

\* C10: when the call gives properties (a bag or overrides) and the agent's
\* default is a bag, every property the call specifies goes out with the call's
\* value, a zero temperature included; a property the call does not specify
\* goes out with the agent default's value, unless the call's version is a
\* remote reference; nothing else goes out but the default model.
C10_FieldByFieldMerge ==
    (/\ Sent /\ params.api = "agent"
     /\ agent_version.t = "obj"
     /\ CallProperties # <<>>) =>
        LET sent == request_version.v
            defaults == agent_version.v
        IN  /\ request_version.t = "obj"
            /\ \A p \in DOMAIN CallProperties :
                  p \in DOMAIN sent /\ sent[p] = CallProperties[p]
            /\ \A p \in (DOMAIN sent) \ (DOMAIN CallProperties) :
                  \/ p \in DOMAIN defaults /\ sent[p] = defaults[p]
                  \/ p = "model" /\ sent[p] = JStr(DEFAULT_MODEL)
            /\ params.version.t \notin {"str", "int"} =>
                  \A p \in (DOMAIN defaults) \ (DOMAIN CallProperties) :
                      p \in DOMAIN sent /\ sent[p] = defaults[p]

\* a call giving temperature 0 to an agent whose default bag holds a nonzero
\* temperature and instructions: 0 went out, with the agent's instructions
C10_Witness ==
    /\ Sent /\ params.api = "agent"
    /\ agent_version.t = "obj"
    /\ DOMAIN agent_version.v = {"temperature", "instructions"}
    /\ agent_version.v["temperature"] = JInt(7)
    /\ params.version = JObj([k \in {"temperature"} |-> JInt(0)])
    /\ request_version.v["temperature"] = JInt(0)
    /\ request_version.v["instructions"] = agent_version.v["instructions"]

\* the version in effect before overrides: the call's, else the agent's
RequestedVersion == IF params.version # JNull THEN params.version ELSE agent_version

\* C11: when the version in effect (given at call time, or else the agent's
\* default) is an alias or an iteration and the call overrides the model, the
\* version sent is a properties bag holding the override's model and nothing
\* the call did not override: no instructions of the agent, no alias, no
\* iteration.
C11_OverrideBeatsRemote ==
    (/\ Sent /\ params.api = "agent"
     /\ params.overrides # <<>>
     /\ RequestedVersion.t \in {"str", "int"}) =>
        /\ request_version.t = "obj"
        /\ request_version # RequestedVersion
        /\ request_version.v["model"] = params.overrides["model"]
        /\ DOMAIN request_version.v = DOMAIN params.overrides
        /\ \A k \in DOMAIN params.overrides : request_version.v[k] = params.overrides[k]

\* the agent's default is "staging" and the call overrides the model only
C11_Witness ==
    /\ Sent /\ params.api = "agent"
    /\ agent_version = JStr("staging")
    /\ params.version = JNull
    /\ params.overrides = [k \in {"model"} |-> JStr("gpt-4o-latest")]
    /\ request_version = JObj([k \in {"model"} |-> JStr("gpt-4o-latest")])

----------------------------------------------------------------------------
(* WorkflowAIClient.run: the retry loop                                    *)
(*                                                                         *)
(* Durations are in milliseconds, as run's arguments are; the code divides *)
(* them all by 1000 before it compares them.                               *)

MaxRetryCount == 3

RetryDelays == {1, 5}

MaxRetryDelays == {4}

\* what the transport answers to a request: a response or an exception
Response(code, body) == [kind |-> "response", status |-> code, body |-> body]

TransportError(cls) == [kind |-> "error", status |-> 0, body |-> cls]

Answers ==
    {Response(200, "run_1"), Response(200, "run_2"), Response(400, ""), Response(404, ""),
     Response(429, ""), Response(500, ""), TransportError("ConnectError")}

\* api.post as run uses it: the parsed body of a 2xx response, HTTPStatusError
\* for any other response, the transport's own exception otherwise
api_post(answer) ==
    IF answer.kind = "error" THEN [t |-> "raise", cls |-> answer.body, v |-> 0]
    ELSE IF is_success(answer.status)
    THEN [t |-> "ok", cls |-> "TaskRunResponse", v |-> answer.body]
    ELSE [t |-> "raise", cls |-> "HTTPStatusError", v |-> answer.status]

\* res.to_domain(task)
TaskRun(body) == [t |-> "run", cls |-> "TaskRun", v |-> body]

\* the async generator _stream()
StreamIterator == [t |-> "stream", cls |-> "AsyncIterator", v |-> ""]

Min(a, b) == IF a < b THEN a ELSE b

\* one iteration of the retry loop that raises on 429 instead of waiting
RunLoopStep_RaiseOn429(answer, d, max_d) ==
    LET r == api_post(answer)
    IN  IF r.t = "ok" THEN [outcome |-> TaskRun(r.v), delay |-> d, sleep |-> <<>>]
        ELSE IF r.cls # "HTTPStatusError"
        THEN [outcome |-> Raise(r.cls, ""), delay |-> d, sleep |-> <<>>]
        ELSE IF r.v \in {404, 429}
        THEN [outcome |-> Raise("NotFoundError", "Task not found"), delay |-> d, sleep |-> <<>>]
        ELSE [outcome |-> Nothing, delay |-> d, sleep |-> <<>>]

\* the loop with the 404 branch left out
RunLoopStep_RetryOn404(answer, d, max_d) ==
    LET r == api_post(answer)
    IN  IF r.t = "ok" THEN [outcome |-> TaskRun(r.v), delay |-> d, sleep |-> <<>>]
        ELSE IF r.cls # "HTTPStatusError"
        THEN [outcome |-> Raise(r.cls, ""), delay |-> d, sleep |-> <<>>]
        ELSE IF r.v = 429
        THEN LET d2 == IF d < max_d THEN Min(d * 2, max_d) ELSE d
             IN  [outcome |-> Nothing, delay |-> d2, sleep |-> <<d2>>]
        ELSE [outcome |-> Nothing, delay |-> d, sleep |-> <<>>]

\* one iteration of the retry loop: how it ends the call (Nothing: it does
\* not), the new delay, and the sleep it makes
RunLoopStep(answer, d, max_d) ==
    LET r == api_post(answer)
    IN  IF r.t = "ok" THEN [outcome |-> TaskRun(r.v), delay |-> d, sleep |-> <<>>]
        ELSE IF r.cls # "HTTPStatusError"
        THEN [outcome |-> Raise(r.cls, ""), delay |-> d, sleep |-> <<>>]
        ELSE IF r.v = 404
        THEN [outcome |-> Raise("NotFoundError", "Task not found"), delay |-> d, sleep |-> <<>>]
        ELSE IF r.v = 429
        THEN LET d2 == IF d < max_d THEN Min(d * 2, max_d) ELSE d
             IN  [outcome |-> Nothing, delay |-> d2, sleep |-> <<d2>>]
        ELSE [outcome |-> Nothing, delay |-> d, sleep |-> <<>>]

InitRun ==
    /\ IdleSse
    /\ IdleDec
    /\ IdleVer
    /\ IdleAgent
    /\ IdleApi
    /\ IdleRest
    /\ run_stream \in BOOLEAN
    /\ max_retry_count \in 0..MaxRetryCount
    /\ retry_delay \in RetryDelays
    /\ max_retry_delay \in MaxRetryDelays
    /\ attempt = 0
    /\ delay = IF run_stream THEN 0 ELSE retry_delay
    /\ slept = <<>>
    /\ seen = <<>>
    /\ outcome = Nothing

\* one iteration of `for _ in range(max_retry_count)`; after the last one the
\* loop is left and run returns _stream()
RunAttempt(answer) ==
    /\ outcome = Nothing
    /\ ~run_stream
    /\ attempt < max_retry_count
    /\ LET step == RunLoopStep(answer, delay, max_retry_delay)
       IN  /\ delay' = step.delay
           /\ slept' = slept \o step.sleep
           /\ outcome' = IF step.outcome = Nothing /\ attempt + 1 = max_retry_count
                         THEN StreamIterator
                         ELSE step.outcome
    /\ attempt' = attempt + 1
    /\ seen' = Append(seen, answer)
    /\ UNCHANGED <<run_stream, max_retry_count, retry_delay, max_retry_delay>>
    /\ UNCHANGED notRunVars

\* stream=True, or a loop of no iteration: run returns _stream() at once
RunStream ==
    /\ outcome = Nothing
    /\ run_stream \/ max_retry_count = 0
    /\ outcome' = StreamIterator
    /\ UNCHANGED <<run_stream, max_retry_count, retry_delay, max_retry_delay, attempt, delay,
                   slept, seen>>
    /\ UNCHANGED notRunVars

NextRun == (\E answer \in Answers : RunAttempt(answer)) \/ RunStream

SpecRun == InitRun /\ [][NextRun]_vars

----------------------------------------------------------------------------
(* Claims on the retry loop                                                *)

Ended == outcome # Nothing

IsRateLimited(answer) == answer.kind = "response" /\ answer.status = 429

IsSuccess(answer) == answer.kind = "response" /\ is_success(answer.status)

PersistentlyTransient ==
    /\ seen # <<>>
    /\ \A i \in 1..Len(seen) : seen[i] = seen[1]
    /\ IsRateLimited(seen[1]) \/ seen[1].kind = "error"

\* C13: a non-streaming run never makes more requests than max_retry_count;
\* when every one of them meets the same transient failure (429, or a
\* connection failure) the run ends only after exactly max_retry_count
\* requests, and it ends by raising an error, never by returning a Run or a
\* stream iterator.
C13_RetryExhaustion ==
    ~run_stream =>
        /\ Len(seen) <= max_retry_count
        /\ (Ended /\ PersistentlyTransient) =>
              /\ Len(seen) = max_retry_count
              /\ Raised(outcome)

\* the first answer is a response that is neither a success nor a 429
FirstIsPlainFailure ==
    /\ seen # <<>>
    /\ seen[1].kind = "response"
    /\ ~is_success(seen[1].status)
    /\ seen[1].status # 429

NoRetryAfter == 0

CONNECTION_RETRY_MS == 10

\* a decoded JSON body: a run, an error response, or bytes that are not JSON
RunBody(id, output, tools) ==
    [kind |-> "run", code |-> "", id |-> id, output |-> output, tools |-> tools]

ErrorBody(code, id, output) ==
    [kind |-> "error", code |-> code, id |-> id, output |-> output, tools |-> <<>>]

RawBody == [kind |-> "raw", code |-> "", id |-> "", output |-> JNull, tools |-> <<>>]

\* what the transport gives for one request: a response or an exception
HttpResponse(code, retry_after, body) ==
    [kind |-> "response", cls |-> "", status |-> code, retry_after |-> retry_after, body |-> body]

HttpException(cls) ==
    [kind |-> "exception", cls |-> cls, status |-> 0, retry_after |-> NoRetryAfter, body |-> RawBody]

\* httpx exception classes; none is a subclass of another one of the set
TransportExceptions == {"ReadError", "ConnectError", "WriteError", "ReadTimeout", "RemoteProtocolError"}

WorkflowAIError(code, message, retry_after, run_id, partial_output) ==
    Raise("WorkflowAIError",
          [code |-> code, message |-> message, retry_after |-> retry_after,
           run_id |-> run_id, partial_output |-> partial_output])

Returned(body) == [t |-> "ok", cls |-> "", v |-> body]

\* the except clause of the context manager every method runs in
_client_WrapsConnectOnly(cls) ==
    IF cls = "ConnectError"
    THEN WorkflowAIError("connection_error", "Could not read response", CONNECTION_RETRY_MS, "", JNull)
    ELSE Raise(cls, "")

_client(cls) ==
    IF cls \in {"ReadError", "ConnectError"}
    THEN WorkflowAIError("connection_error", "Could not read response", CONNECTION_RETRY_MS, "", JNull)
    ELSE Raise(cls, "")

\* WorkflowAIError.from_response: the error of a response body
from_response(response) ==
    IF response.body.kind = "error"
    THEN WorkflowAIError(response.body.code, "server message", response.retry_after,
                         response.body.id, response.body.output)
    ELSE WorkflowAIError("", "Unknown error", response.retry_after, "", JNull)

\* the outcome of raise_for_status: Nothing when it does not raise
raise_for_status(response) ==
    IF response.status < 200 \/ response.status >= 300
    THEN from_response(response)
    ELSE Nothing

\* TypeAdapter(returns).validate_python(response.json())
validate_python(body) ==
    IF body.kind = "raw" THEN Raise("JSONDecodeError", "")
    ELSE IF body.kind = "run" THEN Returned(body)
    ELSE Raise("ValidationError", "")

\* get, post and patch with a type to return
APIClient_request(answer) ==
    IF answer.kind = "exception" THEN _client(answer.cls)
    ELSE IF raise_for_status(answer) # Nothing THEN raise_for_status(answer)
    ELSE validate_python(answer.body)

APIClient_get(answer) == APIClient_request(answer)

APIClient_post(answer) == APIClient_request(answer)

APIClient_patch(answer) == APIClient_request(answer)

APIClient_delete(answer) ==
    IF answer.kind = "exception" THEN _client(answer.cls)
    ELSE IF raise_for_status(answer) # Nothing THEN raise_for_status(answer)
    ELSE Returned(RawBody)

\* _extract_error for a frame that failed validation
_extract_error(body) ==
    IF body.kind = "error"
    THEN WorkflowAIError(body.code, "server message", NoRetryAfter, body.id, body.output)
    ELSE WorkflowAIError("", "validation error", NoRetryAfter, "", JNull)

ApiOps == {"get", "post", "patch", "delete", "stream"}

ApiBodies ==
    {RunBody("run_1", JStr("a"), <<>>), RunBody("run_2", JStr("b"), <<>>),
     ErrorBody("object_not_found", "run_1", JStr("a")), RawBody}

ApiAnswers ==
    {HttpResponse(200, NoRetryAfter, b) : b \in ApiBodies}
    \cup {HttpResponse(404, NoRetryAfter, ErrorBody("object_not_found", "", JNull)),
          HttpResponse(429, 10, ErrorBody("rate_limit", "", JNull)),
          HttpResponse(500, NoRetryAfter, RawBody)}
    \cup {HttpException(cls) : cls \in TransportExceptions}

\* what the transport produces between two frames of an open stream
ApiEvents ==
    {HttpResponse(200, NoRetryAfter, b) : b \in ApiBodies}
    \cup {HttpException(cls) : cls \in TransportExceptions}

InitApi ==
    /\ IdleSse
    /\ IdleDec
    /\ IdleVer
    /\ IdleRun
    /\ IdleAgent
    /\ IdleRest
    /\ api_op \in ApiOps
    /\ api_pc = "start"
    /\ api_seen = <<>>
    /\ api_yielded = <<>>
    /\ api_outcome = Nothing

\* get, post, patch, delete: one request, one outcome
ApiCall(answer) ==
    /\ api_pc = "start"
    /\ api_op # "stream"
    /\ api_seen' = Append(api_seen, answer)
    /\ api_outcome' = CASE api_op = "get" -> APIClient_get(answer)
                        [] api_op = "post" -> APIClient_post(answer)
                        [] api_op = "patch" -> APIClient_patch(answer)
                        [] OTHER -> APIClient_delete(answer)
    /\ api_pc' = "done"
    /\ UNCHANGED <<api_op, api_yielded>>
    /\ UNCHANGED notApiVars

\* stream: the request is sent and the status line read
ApiStreamOpen(answer) ==
    /\ api_pc = "start"
    /\ api_op = "stream"
    /\ api_seen' = Append(api_seen, answer)
    /\ IF answer.kind = "exception"
       THEN api_outcome' = _client(answer.cls) /\ api_pc' = "done"
       ELSE IF ~is_success(answer.status)
       THEN api_outcome' = raise_for_status(answer) /\ api_pc' = "done"
       ELSE api_outcome' = Nothing /\ api_pc' = "streaming"
    /\ UNCHANGED <<api_op, api_yielded>>
    /\ UNCHANGED notApiVars

\* stream: the next frame arrives, or the transport fails while waiting for it
ApiStreamNext(event) ==
    /\ api_pc = "streaming"
    /\ Len(api_yielded) < MaxFrames
    /\ api_seen' = Append(api_seen, event)
    /\ IF event.kind = "exception"
       THEN api_outcome' = _client(event.cls) /\ api_pc' = "done" /\ UNCHANGED api_yielded
       ELSE IF event.body.kind = "run"
       THEN api_yielded' = Append(api_yielded, event.body) /\ UNCHANGED <<api_outcome, api_pc>>
       ELSE api_outcome' = _extract_error(event.body) /\ api_pc' = "done" /\ UNCHANGED api_yielded
    /\ UNCHANGED api_op
    /\ UNCHANGED notApiVars

\* stream: the body ends
ApiStreamEnd ==
    /\ api_pc = "streaming"
    /\ api_outcome' = Returned(RawBody)
    /\ api_pc' = "done"
    /\ UNCHANGED <<api_op, api_seen, api_yielded>>
    /\ UNCHANGED notApiVars

NextApi ==
    \/ \E answer \in ApiAnswers : ApiCall(answer)
    \/ \E answer \in ApiAnswers : ApiStreamOpen(answer)
    \/ \E event \in ApiEvents : ApiStreamNext(event)
    \/ ApiStreamEnd

SpecApi == InitApi /\ [][NextApi]_vars

\* ---------------------------------------------------------------------------
\* Claims on the errors of APIClient
\* ---------------------------------------------------------------------------

ApiRaised == api_pc = "done" /\ Raised(api_outcome)

\* C19: every error reaching the caller of get, post, patch, delete or stream
\* is a typed SDK error; no exception of the HTTP library propagates unwrapped.
C19_NoBareTransportError ==
    ApiRaised => api_outcome.cls = "WorkflowAIError"

LastSeen == api_seen[Len(api_seen)]

ConnectionFault ==
    /\ api_pc = "done"
    /\ api_op \in {"get", "post", "stream"}
    /\ LastSeen.kind = "exception"
    /\ LastSeen.cls \in {"ReadError", "ConnectError"}

\* C20: a ReadError or ConnectError of the transport during get, post or
\* stream reaches the caller as a WorkflowAIError with code "connection_error"
\* and a retry delay of 10 ms, for stream before the first frame and between frames.
C20_ConnectionErrorWrapped ==
    ConnectionFault =>
        /\ api_outcome.cls = "WorkflowAIError"
        /\ api_outcome.v.code = "connection_error"
        /\ api_outcome.v.retry_after = CONNECTION_RETRY_MS

C20_Witness ==
    /\ ConnectionFault
    /\ api_op = "stream"
    /\ LastSeen.cls = "ReadError"
    /\ Len(api_yielded) >= 1
    /\ api_outcome.v.code = "connection_error"

\* ---------------------------------------------------------------------------
\* Agent: run, reply and the tool loop, on top of APIClient.post
\* ---------------------------------------------------------------------------

DEFAULT_MAX_TURNS == 10

\* the server's answers vary freely for the first requests of a call only
MaxVariedTurns == 2

\* transient failures injected in one call
MaxFailures == 2

MaxTurnsValues == {0, 1, 2, DEFAULT_MAX_TURNS}

RetryCounts == {1, 2}

ToolNames == {"some_tool"}

\* the tool of the agent_with_tools fixture: f"Hello, world {arg}!"
some_tool(arg) == [greeting |-> "Hello, world", arg |-> arg]

ToolCallRequest(id, name, input) == [id |-> id, name |-> name, input |-> input]

\* from_domain losing the output
ToolResult_from_domain_NoOutput(tool_result) ==
    [id |-> tool_result.id, output |-> JNull, error |-> tool_result.error]

\* ReplyRequest.ToolResult.from_domain
ToolResult_from_domain(tool_result) ==
    [id |-> tool_result.id, output |-> tool_result.output, error |-> tool_result.error]

AgentCalls ==
    [op : {"run", "reply"}, max_turns : MaxTurnsValues, max_turns_raises : BOOLEAN,
     max_retry_count : RetryCounts, tools : {{}, ToolNames}]
    \cup {[op |-> "stream", max_turns |-> DEFAULT_MAX_TURNS, max_turns_raises |-> TRUE,
           max_retry_count |-> 1, tools |-> {}]}

\* the lists of tool calls a response may request; n numbers the response
ToolRequestLists(n) ==
    IF n <= MaxVariedTurns
    THEN {<<ToolCallRequest("1", "some_tool", n)>>,
          <<ToolCallRequest("1", "some_tool", n), ToolCallRequest("2", "some_tool", n + 1)>>,
          <<ToolCallRequest("1", "other_tool", n)>>}
    ELSE {<<ToolCallRequest("1", "some_tool", n)>>}

AgentFailures ==
    {HttpResponse(404, NoRetryAfter, ErrorBody("object_not_found", "", JNull)),
     HttpResponse(400, NoRetryAfter, ErrorBody("whatever", "", JNull)),
     HttpResponse(429, 10, ErrorBody("rate_limit", "", JNull)),
     HttpException("ConnectError"),
     HttpException("WriteError")}

\* what the transport may give for the n-th request of a call, f failures so far
AgentAnswers(n, f) ==
    {HttpResponse(200, NoRetryAfter, RunBody(n, JStr("blibli!"), <<>>))}
    \cup {HttpResponse(200, NoRetryAfter, RunBody(n, JNull, l)) : l \in ToolRequestLists(n)}
    \cup (IF n <= MaxVariedTurns + 1 /\ f < MaxFailures THEN AgentFailures ELSE {})

\* a request as the server saw it, with what it was answered: the status and,
\* for a run, its id and the tool calls it requests
AgentRequest(endpoint, run_id, tool_results, answer) ==
    [kind |-> "request", endpoint |-> endpoint, run_id |-> run_id, data |-> tool_results,
     status |-> answer.status,
     answer_id |-> IF answer.body.kind = "run" THEN answer.body.id ELSE 0,
     answered |-> answer.body.tools]

\* a call of a tool's implementation with the arguments of the request
ToolInvocation(request) ==
    [kind |-> "tool", endpoint |-> request.name, run_id |-> 0, data |-> <<request.input>>,
     status |-> 0, answer_id |-> 0, answered |-> <<>>]

MaxTurnsReachedError(tool_call_requests) == Raise("MaxTurnsReachedError", tool_call_requests)

\* the requests the agent has an implementation for
Executable(tool_call_requests, tools) ==
    SelectSeq(tool_call_requests, LAMBDA q : q.name \in tools)

\* build_retryable_wait: whether a failed run request is sent again
should_retry(error, attempts, max_count) ==
    /\ error.cls = "WorkflowAIError"
    /\ error.v.retry_after # NoRetryAfter
    /\ attempts + 1 < max_count

\* Agent.reply: a reply that finds no run is sent once more
reply_again_Never(error, attempts) == FALSE

reply_again(error, attempts) ==
    /\ error.cls = "WorkflowAIError"
    /\ error.v.code = "object_not_found"
    /\ attempts = 0

\* whether the loop stops at this response; turn counts the responses so far
max_turns_reached_OneMore(turn, max_turns) == turn > max_turns

max_turns_reached(turn, max_turns) == turn >= max_turns

AgentSending(endpoint, run_id, tool_results, turn, attempts, failures) ==
    [pc |-> "send", endpoint |-> endpoint, run_id |-> run_id, tool_results |-> tool_results,
     turn |-> turn, attempts |-> attempts, failures |-> failures, pending |-> <<>>,
     frames |-> <<>>, last_error |-> Nothing]

InitAgent ==
    /\ IdleSse
    /\ IdleDec
    /\ IdleVer
    /\ IdleRun
    /\ IdleApi
    /\ IdleRest
    /\ agent_call \in AgentCalls
    /\ agent_state = IF agent_call.op = "run"
                     THEN AgentSending("run", 0, <<>>, 0, 0, 0)
                     ELSE IF agent_call.op = "stream"
                     THEN [AgentSending("run", 0, <<>>, 0, 0, 0) EXCEPT !.pc = "open"]
                     ELSE AgentSending("reply", 0,
                              <<ToolResult_from_domain([id |-> "1", output |-> some_tool(0), error |-> ""])>>,
                              0, 0, 0)
    /\ agent_log = <<>>
    /\ agent_outcome = Nothing

\* one request of Agent.run or Agent.reply and what the agent does with the answer
AgentPost(answer) ==
    /\ agent_outcome = Nothing
    /\ agent_state.pc = "send"
    /\ LET s == agent_state
           r == APIClient_post(answer)
           turn == s.turn + 1
       IN  /\ agent_log' = Append(agent_log, AgentRequest(s.endpoint, s.run_id, s.tool_results, answer))
           /\ IF r.t = "ok" /\ r.v.tools = <<>>
              THEN /\ agent_outcome' = r
                   /\ agent_state' = [s EXCEPT !.pc = "done", !.turn = turn]
              ELSE IF r.t = "ok" /\ max_turns_reached(turn, agent_call.max_turns)
              THEN /\ agent_outcome' = IF agent_call.max_turns_raises
                                       THEN MaxTurnsReachedError(r.v.tools)
                                       ELSE r
                   /\ agent_state' = [s EXCEPT !.pc = "done", !.turn = turn]
              ELSE IF r.t = "ok" /\ Executable(r.v.tools, agent_call.tools) = <<>>
              THEN /\ agent_outcome' = r
                   /\ agent_state' = [s EXCEPT !.pc = "done", !.turn = turn]
              ELSE IF r.t = "ok"
              THEN /\ agent_outcome' = Nothing
                   /\ agent_state' = [s EXCEPT !.pc = "tools", !.turn = turn, !.attempts = 0,
                                               !.run_id = r.v.id, !.pending = r.v.tools]
              ELSE IF \/ s.endpoint = "reply" /\ reply_again(r, s.attempts)
                      \/ s.endpoint = "run" /\ should_retry(r, s.attempts, agent_call.max_retry_count)
              THEN /\ agent_outcome' = Nothing
                   /\ agent_state' = [s EXCEPT !.attempts = s.attempts + 1,
                                               !.failures = s.failures + 1]
              ELSE /\ agent_outcome' = r
                   /\ agent_state' = [s EXCEPT !.pc = "done", !.failures = s.failures + 1]
    /\ UNCHANGED agent_call
    /\ UNCHANGED notAgentVars

\* the requested tools are run and their results become the next reply
AgentTools ==
    /\ agent_outcome = Nothing
    /\ agent_state.pc = "tools"
    /\ LET s == agent_state
           todo == Executable(s.pending, agent_call.tools)
           results == [i \in 1..Len(todo) |->
                          ToolResult_from_domain(
                              [id |-> todo[i].id, output |-> some_tool(todo[i].input), error |-> ""])]
       IN  /\ agent_log' = agent_log \o [i \in 1..Len(todo) |-> ToolInvocation(todo[i])]
           /\ agent_state' = [s EXCEPT !.pc = "send", !.endpoint = "reply",
                                       !.tool_results = results, !.pending = <<>>]
    /\ UNCHANGED <<agent_call, agent_outcome>>
    /\ UNCHANGED notAgentVars

\* the output class of the agent that streams: HelloTaskOutput(message: str)
FrameOutputs ==
    {JObj([k \in {"message"} |-> JStr("")]), JObj([k \in {"message"} |-> JStr("hello")]),
     JObj([k \in {"message"} |-> JInt(1)]), JObj(<<>>)}

\* the validator of a streamed output: an absent field is the empty string, a
\* present one must be of the declared type
validate_output(output) ==
    LET message == IF "message" \in DOMAIN output.v
                   THEN validate_annotation("message", AnnStr, output.v["message"])
                   ELSE JStr("")
    IN  IF Raised(message) THEN message
        ELSE Inst("HelloTaskOutput", [k \in {"message"} |-> message])

Yielded(id, output) ==
    [kind |-> "yield", endpoint |-> "", run_id |-> id, data |-> <<output>>,
     status |-> 0, answer_id |-> 0, answered |-> <<>>]

\* the log record "Client side validation error in stream"
Diagnostic(id, output) ==
    [kind |-> "log", endpoint |-> "", run_id |-> id, data |-> <<output>>,
     status |-> 0, answer_id |-> 0, answered |-> <<>>]

\* what the streams opened by the agent may carry after the status line
AgentStreamEvents ==
    {HttpResponse(200, NoRetryAfter, RunBody("1", output, <<>>)) : output \in FrameOutputs}
    \cup {HttpResponse(200, NoRetryAfter, RawBody), HttpException("ReadError"),
          HttpException("WriteError")}

AgentStreamAnswers ==
    {HttpResponse(200, NoRetryAfter, RawBody),
     HttpResponse(404, NoRetryAfter, ErrorBody("object_not_found", "", JNull)),
     HttpException("ConnectError")}

\* a frame handed on as it is, as WorkflowAIClient.run does in its _stream
StreamStep_YieldUnvalidated(body) ==
    [event |-> Yielded(body.id, Inst("HelloTaskOutput", body.output.v)), error |-> Nothing]

\* one frame of Agent.stream: the run to yield, or the diagnostic and the
\* error to raise should this frame be the last one
StreamStep(body) ==
    LET output == validate_output(body.output)
    IN  IF Raised(output)
        THEN [event |-> Diagnostic(body.id, body.output),
              error |-> WorkflowAIError("", "validation error", NoRetryAfter, body.id, body.output)]
        ELSE [event |-> Yielded(body.id, output), error |-> Nothing]

\* Agent.stream: the request is sent and the status line read
AgentStreamOpen(answer) ==
    /\ agent_outcome = Nothing
    /\ agent_state.pc = "open"
    /\ agent_log' = Append(agent_log, AgentRequest("run", 0, <<>>, answer))
    /\ IF answer.kind = "exception"
       THEN /\ agent_outcome' = _client(answer.cls)
            /\ agent_state' = [agent_state EXCEPT !.pc = "done"]
       ELSE IF ~is_success(answer.status)
       THEN /\ agent_outcome' = raise_for_status(answer)
            /\ agent_state' = [agent_state EXCEPT !.pc = "done"]
       ELSE /\ agent_outcome' = Nothing
            /\ agent_state' = [agent_state EXCEPT !.pc = "streaming"]
    /\ UNCHANGED agent_call
    /\ UNCHANGED notAgentVars

\* Agent.stream: the next frame of APIClient.stream, or its failure
AgentStreamNext(event) ==
    /\ agent_outcome = Nothing
    /\ agent_state.pc = "streaming"
    /\ Len(agent_state.frames) <= MaxFrames
    /\ IF event.kind = "exception"
       THEN /\ agent_outcome' = _client(event.cls)
            /\ agent_state' = [agent_state EXCEPT !.pc = "done"]
            /\ UNCHANGED agent_log
       ELSE IF event.body.kind # "run"
       THEN /\ agent_outcome' = _extract_error(event.body)
            /\ agent_state' = [agent_state EXCEPT !.pc = "done"]
            /\ UNCHANGED agent_log
       ELSE LET step == StreamStep(event.body)
            IN  /\ agent_log' = Append(agent_log, step.event)
                /\ agent_state' = [agent_state EXCEPT !.frames = Append(@, event.body),
                                                      !.last_error = step.error]
                /\ UNCHANGED agent_outcome
    /\ UNCHANGED agent_call
    /\ UNCHANGED notAgentVars

\* Agent.stream: the stream ends; a last frame that failed validation is raised
AgentStreamEnd ==
    /\ agent_outcome = Nothing
    /\ agent_state.pc = "streaming"
    /\ agent_outcome' = IF agent_state.last_error # Nothing THEN agent_state.last_error
                        ELSE Returned(RawBody)
    /\ agent_state' = [agent_state EXCEPT !.pc = "ended"]
    /\ UNCHANGED <<agent_call, agent_log>>
    /\ UNCHANGED notAgentVars

NextAgent ==
    \/ /\ agent_outcome = Nothing
       /\ \E answer \in AgentAnswers(agent_state.turn + 1, agent_state.failures) : AgentPost(answer)
    \/ AgentTools
    \/ \E answer \in AgentStreamAnswers : AgentStreamOpen(answer)
    \/ \E event \in AgentStreamEvents : AgentStreamNext(event)
    \/ AgentStreamEnd

SpecAgent == InitAgent /\ [][NextAgent]_vars

\* WorkflowAIClient.run and Agent.run / Agent.reply side by side
InitCalls == InitRun \/ InitAgent

NextCalls == NextRun \/ NextAgent

SpecCalls == InitCalls /\ [][NextCalls]_vars

\* ---------------------------------------------------------------------------
\* Claims on the agent's requests
\* ---------------------------------------------------------------------------

AgentEnded == agent_outcome \notin {Nothing, NotCalled}

Is404(i) == agent_log[i].kind = "request" /\ agent_log[i].status = 404

\* the i-th entry of the log is a reply that follows a 404 of the same reply
IsSecondTry(i) ==
    /\ i > 1
    /\ agent_log[i].kind = "request"
    /\ agent_log[i].endpoint = "reply"
    /\ Is404(i - 1)

NotFoundRaised(x) ==
    /\ Raised(x)
    /\ x.cls = "WorkflowAIError"
    /\ x.v.code = "object_not_found"

\* a 404 answered to a run request ends the call at once
RunNotRetried ==
    \A i \in 1..Len(agent_log) :
        Is404(i) /\ agent_log[i].endpoint = "run" =>
            /\ i = Len(agent_log)
            /\ NotFoundRaised(agent_outcome)

\* a 404 answered to the first try of a reply is followed by one more try
ReplyRetriedOnce ==
    \A i \in 1..Len(agent_log) :
        Is404(i) /\ agent_log[i].endpoint = "reply" /\ ~IsSecondTry(i) =>
            /\ i = Len(agent_log) => ~AgentEnded /\ agent_state.pc = "send"
            /\ i < Len(agent_log) =>
                  /\ IsSecondTry(i + 1)
                  /\ agent_log[i + 1].data = agent_log[i].data
                  /\ agent_log[i + 1].run_id = agent_log[i].run_id

\* the second try is the last one: its 404 is raised, its success is the
\* response the call goes on with
SecondTryIsLast ==
    \A i \in 1..Len(agent_log) :
        IsSecondTry(i) =>
            /\ Is404(i) => i = Len(agent_log) /\ NotFoundRaised(agent_outcome)
            /\ i < Len(agent_log) => agent_log[i].status = 200
            /\ agent_log[i].status = 200 /\ i = Len(agent_log) =>
                  ~Raised(agent_outcome) \/ agent_outcome.cls = "MaxTurnsReachedError"

\* WorkflowAIClient.run: a 404 is the last answer and raises NotFoundError
ClientRunNotRetried ==
    \A i \in 1..Len(seen) :
        seen[i].kind = "response" /\ seen[i].status = 404 =>
            /\ i = Len(seen)
            /\ outcome = Raise("NotFoundError", "Task not found")

\* C15: a 404 on the reply endpoint is retried exactly once (a success on the
\* second try is returned after two requests, a second 404 raises the
\* not-found error after exactly two requests); a 404 on the run endpoint is
\* not retried and raises after that one request.
C15_NotFoundRetriedOnceOnReply ==
    /\ RunNotRetried
    /\ ReplyRetriedOnce
    /\ SecondTryIsLast
    /\ ClientRunNotRetried

C15_Witness ==
    /\ agent_outcome.t = "ok"
    /\ agent_call.op = "reply"
    /\ Len(agent_log) = 2
    /\ Is404(1)
    /\ agent_log[2].status = 200
    /\ agent_log[2].endpoint = "reply"

\* the responses received up to the i-th entry of the log
ResponsesUpTo(i) ==
    Cardinality({j \in 1..i : agent_log[j].kind = "request" /\ agent_log[j].status = 200})

\* the i-th entry is a request answered by a run that asks for tools the agent
\* has, before the turn limit
AsksForTools(i) ==
    /\ agent_log[i].kind = "request"
    /\ agent_log[i].status = 200
    /\ agent_log[i].answered # <<>>
    /\ \A j \in 1..Len(agent_log[i].answered) : agent_log[i].answered[j].name \in agent_call.tools
    /\ ResponsesUpTo(i) < agent_call.max_turns

\* the tool_results that answer a list of tool call requests
ExpectedResults(tool_call_requests) ==
    [j \in 1..Len(tool_call_requests) |->
        [id |-> tool_call_requests[j].id,
         output |-> some_tool(tool_call_requests[j].input),
         error |-> ""]]

\* the i-th entry is a reply carrying exactly the results for the requests of response r
IsReplyTo(i, r) ==
    /\ agent_log[i].kind = "request"
    /\ agent_log[i].endpoint = "reply"
    /\ agent_log[i].run_id = agent_log[r].answer_id
    /\ agent_log[i].data = ExpectedResults(agent_log[r].answered)

Max(a, b) == IF a > b THEN a ELSE b

RequestsSent == Cardinality({j \in 1..Len(agent_log) : agent_log[j].kind = "request"})

\* the i-th entry is a request answered by a run that asks for tools the agent
\* can run, at the turn limit
AsksAtLimit(i) ==
    /\ agent_log[i].kind = "request"
    /\ agent_log[i].status = 200
    /\ Executable(agent_log[i].answered, agent_call.tools) # <<>>
    /\ ResponsesUpTo(i) >= agent_call.max_turns

\* C17: the run/reply loop takes at most max(1, max_turns) responses; the
\* response that reaches the limit while still requesting tool calls is the
\* last thing sent or received: no tool is run and no reply is sent for it, and
\* the call raises MaxTurnsReachedError with exactly the tool call requests of
\* that response or, when max_turns_raises is false, returns that run with them.
C17_TurnLimit ==
    /\ ResponsesUpTo(Len(agent_log)) <= Max(1, agent_call.max_turns)
    /\ \A i \in 1..Len(agent_log) :
          AsksAtLimit(i) =>
              /\ i = Len(agent_log)
              /\ ResponsesUpTo(i) = Max(1, agent_call.max_turns)
              /\ IF agent_call.max_turns_raises
                 THEN agent_outcome = MaxTurnsReachedError(agent_log[i].answered)
                 ELSE /\ agent_outcome.t = "ok"
                      /\ agent_outcome.v.id = agent_log[i].answer_id
                      /\ agent_outcome.v.tools = agent_log[i].answered
    /\ agent_outcome.cls = "MaxTurnsReachedError" =>
          /\ agent_call.max_turns_raises
          /\ agent_log[Len(agent_log)].status = 200
          /\ agent_outcome.v = agent_log[Len(agent_log)].answered
          /\ ResponsesUpTo(Len(agent_log)) = Max(1, agent_call.max_turns)

C17_Witness ==
    /\ agent_outcome.cls = "MaxTurnsReachedError"
    /\ agent_call.max_turns = DEFAULT_MAX_TURNS
    /\ agent_call.op = "run"
    /\ RequestsSent = DEFAULT_MAX_TURNS
    /\ agent_outcome.v = <<ToolCallRequest("1", "some_tool", DEFAULT_MAX_TURNS)>>

\* ---------------------------------------------------------------------------
\* Claims on the agent's stream
\* ---------------------------------------------------------------------------

\* the output of a frame is what HelloTaskOutput declares, or a part of it
ValidOutput(output) ==
    "message" \in DOMAIN output.v => output.v["message"].t = "str"

\* what a frame becomes for the caller: the run yielded, or the diagnostic
FrameEvent(body) ==
    IF ValidOutput(body.output)
    THEN Yielded(body.id,
                 Inst("HelloTaskOutput",
                      [k \in {"message"} |->
                          IF "message" \in DOMAIN body.output.v THEN body.output.v["message"]
                          ELSE JStr("")]))
    ELSE Diagnostic(body.id, body.output)

\* the stream was read to its end
StreamEnded == agent_state.pc = "ended"

None == [t |-> "none", cls |-> "", v |-> 0]

\* the text of a body: an error response, other JSON, or no JSON at all
ErrorText(message, code, details, id, task_output) ==
    [kind |-> "error", message |-> message, code |-> code, details |-> details,
     id |-> id, task_output |-> task_output]

OtherText(kind) ==
    [kind |-> kind, message |-> "", code |-> None, details |-> None,
     id |-> None, task_output |-> None]

KeyValue == JObj([k \in {"key"} |-> JStr("value")])

ErrorTexts ==
    {ErrorText(m, c, d, i, o) :
        m \in {"Test error message", "other message"},
        c \in {None, JStr("object_not_found")},
        d \in {None, KeyValue},
        i \in {None, JStr("test_task_123")},
        o \in {None, KeyValue}}

BodyTexts == ErrorTexts \cup {OtherText("run"), OtherText("raw")}

\* the exception handed to _extract_error: none, or the ValidationError of a frame
ExtractExceptions == {None, JStr("1 validation error for RunResponse")}

ExtractInputs ==
    [status : {200, 400}, data : BodyTexts, exception : ExtractExceptions]

\* ErrorResponse.model_validate_json(data) succeeds
ParsesAsErrorResponse(text) == text.kind = "error"

ErrorValue(how, message, code, details, run_id, partial_output, response) ==
    [how |-> how, cls |-> "WorkflowAIError", message |-> message, code |-> code,
     details |-> details, run_id |-> run_id, partial_output |-> partial_output,
     response |-> response]

\* _extract_error handing back the error of a body it cannot parse
extract_error_outcome_Returns(input) ==
    IF ParsesAsErrorResponse(input.data)
    THEN ErrorValue("return", input.data.message, input.data.code, input.data.details,
                    input.data.id, input.data.task_output, input.status)
    ELSE ErrorValue("return", "Unknown error", None,
                    JObj([k \in {"raw"} |-> input.data]), None, None, input.status)

\* _extract_error(response, data, exception): the error and whether the
\* function returns it or raises it
extract_error_outcome(input) ==
    IF ParsesAsErrorResponse(input.data)
    THEN ErrorValue("return", input.data.message, input.data.code, input.data.details,
                    input.data.id, input.data.task_output, input.status)
    ELSE ErrorValue("raise",
                    IF input.exception = None THEN "Unknown error" ELSE input.exception.v,
                    None,
                    JObj([k \in {"raw"} |-> input.data]), None, None, input.status)

InitExtract ==
    /\ IdleSse
    /\ IdleDec
    /\ IdleVer
    /\ IdleRun
    /\ IdleAgent
    /\ IdleRest
    /\ api_op = "_extract_error"
    /\ api_pc = "start"
    /\ api_seen \in {<<input>> : input \in ExtractInputs}
    /\ api_yielded = <<>>
    /\ api_outcome = Nothing

Extract ==
    /\ api_op = "_extract_error"
    /\ api_pc = "start"
    /\ api_outcome' = extract_error_outcome(api_seen[1])
    /\ api_pc' = "done"
    /\ UNCHANGED <<api_op, api_seen, api_yielded>>
    /\ UNCHANGED notApiVars

NextExtract == Extract

SpecExtract == InitExtract /\ [][NextExtract]_vars

Extracted == api_op = "_extract_error" /\ api_pc = "done"

\* C21: a body of the shape {error, id?, task_output?} gives a returned
\* WorkflowAIError with the body's message, code and details, run_id = id and
\* partial_output = task_output; any other body gives a returned
\* WorkflowAIError with message "Unknown error" and details {raw: body}; both
\* carry the response.
C21_ErrorExtraction ==
    Extracted =>
        LET input == api_seen[1]
            e == api_outcome
        IN  /\ e.cls = "WorkflowAIError"
            /\ e.how = "return"
            /\ e.response = input.status
            /\ IF ParsesAsErrorResponse(input.data)
               THEN /\ e.message = input.data.message
                    /\ e.code = input.data.code
                    /\ e.details = input.data.details
                    /\ e.run_id = input.data.id
                    /\ e.partial_output = input.data.task_output
               ELSE /\ e.message = "Unknown error"
                    /\ e.details = JObj([k \in {"raw"} |-> input.data])

\* ---------------------------------------------------------------------------
\* Two streams of one APIClient running concurrently
\* ---------------------------------------------------------------------------

StreamIds == {1, 2}

ConcPayloads == {<<"x">>, <<NL>>}

\* the bytes the server sends on one stream: one or two frames
ConcWires ==
    {Wire(<<p>>) : p \in ConcPayloads}
    \cup {Wire(<<p, q>>) : p \in ConcPayloads, q \in ConcPayloads}

\* the locals of _wrap_sse as a call to it creates them
FreshLocals == [data |-> <<>>, in_data |-> FALSE, frames |-> <<>>]

NotStarted == [pc |-> "idle", wire |-> <<>>, pos |-> 0, locals |-> FreshLocals, alone |-> FreshLocals]

\* one iteration of the loop on the locals l
LoopOnce(l, chunk) ==
    LET r == WrapSseChunk(l.data, l.in_data, chunk)
    IN  [data |-> r.data, in_data |-> r.in_data, frames |-> l.frames \o r.out]

\* the loop with data and in_data kept on the client, one copy for all streams
ConcStep_SharedBuffer(g, id, chunk) ==
    LET r == WrapSseChunk(g[1].locals.data, g[1].locals.in_data, chunk)
        g1 == [g EXCEPT ![1].locals.data = r.data, ![1].locals.in_data = r.in_data]
    IN  [g1 EXCEPT ![id].locals.frames = @ \o r.out]

\* a chunk of stream id arrives: the generator of that stream runs one
\* iteration on its own locals
ConcStep(g, id, chunk) == [g EXCEPT ![id].locals = LoopOnce(g[id].locals, chunk)]

InitConc ==
    /\ IdleSse
    /\ IdleDec
    /\ IdleVer
    /\ IdleRun
    /\ IdleAgent
    /\ IdleApi
    /\ IdleReg
    /\ gens = [id \in StreamIds |-> NotStarted]

\* APIClient.stream is called: a new generator with new locals
ConcStart(id, wire) ==
    /\ gens[id].pc = "idle"
    /\ gens' = [gens EXCEPT ![id] = [NotStarted EXCEPT !.pc = "recv", !.wire = wire]]
    /\ UNCHANGED notConcVars

\* the next n bytes of stream id arrive as one chunk
ConcChunk(id, n) ==
    /\ gens[id].pc = "recv"
    /\ gens[id].pos + n <= Len(gens[id].wire)
    /\ LET chunk == SubSeq(gens[id].wire, gens[id].pos + 1, gens[id].pos + n)
           g == ConcStep(gens, id, chunk)
       IN  gens' = [g EXCEPT ![id].pos = @ + n,
                             ![id].alone = LoopOnce(gens[id].alone, chunk)]
    /\ UNCHANGED notConcVars

ConcEnd(id) ==
    /\ gens[id].pc = "recv"
    /\ gens[id].pos = Len(gens[id].wire)
    /\ gens' = [gens EXCEPT ![id].pc = "done"]
    /\ UNCHANGED notConcVars

NextConc ==
    \E id \in StreamIds :
        \/ \E wire \in ConcWires : ConcStart(id, wire)
        \/ \E n \in 1..Len(gens[id].wire) : ConcChunk(id, n)
        \/ ConcEnd(id)

SpecConc == InitConc /\ [][NextConc]_vars

----------------------------------------------------------------------------
(* Further claims on frame reassembly                                      *)

\* the bytes _wrap_sse has received so far
Received == SubSeq(stream, 1, pos)

\* what the "data: " marker stripped from the buffer was, while in a frame
StrippedMarker == IF in_data THEN StartMarker ELSE <<>>

\* C23: every frame yielded so far is followed by "\n\n" in the bytes received
\* so far; the bytes received are the yielded frames as they were on the wire
\* followed by what is still in the buffer, so that no byte of the buffer is
\* part of a yielded frame; and at the end of the stream the bytes left in the
\* buffer are reported and nothing else happens.
C23_OnlyCompleteFrames ==
    /\ \A i \in 1..Len(frames) : Contains(Received, frames[i] \o termination_chars)
    /\ Received = Wire(frames) \o StrippedMarker \o data
    /\ pc = "done" => (leftover <=> data # <<>>)

\* a frame was yielded, and the stream ended with bytes in the buffer
C23_Witness ==
    /\ pc = "done" /\ leftover
    /\ frames # <<>> /\ frames[1] # <<>>
    /\ data # <<>>
    /\ Len(frames) < Len(payloads)

\* _wrap_sse is waiting for the next chunk
Waiting == pc = "recv"

\* C27: every time _wrap_sse waits for the next chunk: with the in-data flag
\* false the buffer does not begin with "data: ", and it is empty when the last
\* byte received ended a frame; with the in-data flag true the buffer contains
\* no "\n\ndata: " separator and does not end with "\n\n".
C27_ReassemblyState ==
    Waiting =>
        /\ ~in_data =>
              /\ ~StartsWith(data, StartMarker)
              /\ (frames # <<>> /\ Received = Wire(frames)) => data = <<>>
        /\ in_data =>
              /\ ~Contains(data, Separator)
              /\ ~EndsWith(data, termination_chars)

\* a frame came out at a separator and the buffer holds the beginning of the
\* next one, up to the first byte of its terminator
C27_Witness ==
    /\ Waiting /\ in_data
    /\ frames # <<>>
    /\ Len(data) > 1 /\ EndsWith(data, <<NL>>)

\* s is the beginning of t
IsPrefix(s, t) == Len(s) <= Len(t) /\ SubSeq(t, 1, Len(s)) = s

\* outside a frame, the buffer holds bytes that cannot become "data: "
Foreign == ~in_data /\ ~IsPrefix(data, StartMarker)

\* C28: once the buffer, with the in-data flag false, holds bytes that are not
\* a prefix of "data: ", every later step leaves the frames yielded as they
\* are and the flag false, a chunk is only appended to the buffer, and the end
\* of the stream reports the buffer as leftover.
C28_StallOnForeignPrefix ==
    [][Foreign =>
          /\ frames' = frames
          /\ Foreign'
          /\ pos' > pos => data' = data \o SubSeq(stream, pos + 1, pos')
          /\ pc' = "done" => leftover']_vars

\* a stray newline after the first frame, then a whole well-formed frame that
\* stayed in the buffer until the stream ended
C28_Witness ==
    /\ pc = "done" /\ Foreign /\ leftover
    /\ Len(frames) = 1
    /\ Head(data) = NL
    /\ Contains(data, WireFrame(<<"x">>))

----------------------------------------------------------------------------
(* Further claims on the retry loop                                        *)

----------------------------------------------------------------------------
(* Auto-registration: WorkflowAIClient.register and _auto_register         *)

\* the calls in flight on one client and one task object
CallerIds == {1, 2}

\* the operations that begin with `await self._auto_register(task)`
RegisteringOps == {"run", "import_run", "import_example", "deploy_version"}

\* task_schema_id of a CreateTaskResponse
SchemaIds == {1, 2}

\* a task object: "" and 0 are the falsy values of an id and a schema id not
\* yet known
Tasks == [id : {"", "agent"}, schema_id : {0} \cup SchemaIds]

\* what goes through the transport: requests and the answers to them
SentRequest(what, caller, t) ==
    [kind |-> "request", what |-> what, caller |-> caller, id |-> t.id,
     schema_id |-> t.schema_id, ok |-> TRUE]

Answered(what, caller, t, ok) ==
    [kind |-> "answer", what |-> what, caller |-> caller, id |-> t.id,
     schema_id |-> t.schema_id, ok |-> ok]

\* _auto_register registering whatever the task holds
_auto_register_Always(t) == TRUE

\* the test of _auto_register: does the task have to be registered?
_auto_register(t) == t.id = "" \/ t.schema_id = 0

\* the request for the operation, on the route of task.id and task.schema_id
OpRequest(op, c, t) == SentRequest(op, c, t)

InitReg ==
    /\ IdleSse
    /\ IdleDec
    /\ IdleVer
    /\ IdleRun
    /\ IdleAgent
    /\ IdleApi
    /\ IdleConc
    /\ task \in Tasks
    /\ callers = [c \in CallerIds |-> [pc |-> "idle", op |-> ""]]
    /\ requests = <<>>

\* an operation is called: it runs until its first await on the transport,
\* which is the POST /tasks of register or, for a known task, its own request
RegCall(c, op) ==
    /\ callers[c].pc = "idle"
    /\ IF _auto_register(task)
       THEN /\ callers' = [callers EXCEPT ![c] = [pc |-> "registering", op |-> op]]
            /\ requests' = Append(requests, SentRequest("register", c, task))
       ELSE /\ callers' = [callers EXCEPT ![c] = [pc |-> "sent", op |-> op]]
            /\ requests' = Append(requests, OpRequest(op, c, task))
    /\ UNCHANGED task
    /\ UNCHANGED notRegVars

\* the answer to POST /tasks arrives: register sets the task's ids, and the
\* operation goes on to send its own request
RegisterAnswered(c, schema_id) ==
    /\ callers[c].pc = "registering"
    /\ LET res == [id |-> "agent", schema_id |-> schema_id]
       IN  /\ task' = res
           /\ requests' = requests \o <<Answered("register", c, res, TRUE),
                                        OpRequest(callers[c].op, c, res)>>
    /\ callers' = [callers EXCEPT ![c].pc = "sent"]
    /\ UNCHANGED notRegVars

\* POST /tasks fails: the error leaves the operation
RegisterFailed(c) ==
    /\ callers[c].pc = "registering"
    /\ requests' = Append(requests, Answered("register", c, task, FALSE))
    /\ callers' = [callers EXCEPT ![c].pc = "failed"]
    /\ UNCHANGED task
    /\ UNCHANGED notRegVars

\* the answer to the operation's request arrives and the call ends
OpAnswered(c, ok) ==
    /\ callers[c].pc = "sent"
    /\ requests' = Append(requests, Answered(callers[c].op, c, task, ok))
    /\ callers' = [callers EXCEPT ![c].pc = IF ok THEN "done" ELSE "failed"]
    /\ UNCHANGED task
    /\ UNCHANGED notRegVars

NextReg ==
    \E c \in CallerIds :
        \/ \E op \in RegisteringOps : RegCall(c, op)
        \/ \E schema_id \in SchemaIds : RegisterAnswered(c, schema_id)
        \/ RegisterFailed(c)
        \/ \E ok \in BOOLEAN : OpAnswered(c, ok)

SpecReg == InitReg /\ [][NextReg]_vars

----------------------------------------------------------------------------
(* Claims on auto-registration                                             *)

IsRegister(e) == e.kind = "request" /\ e.what = "register"

IsOpRequest(e) == e.kind = "request" /\ e.what # "register"

Registered(e) == e.kind = "answer" /\ e.what = "register" /\ e.ok

\* the requests sent so far, without the answers
RequestsOnly == SelectSeq(requests, LAMBDA e : e.kind = "request")

\* the calls made so far were made one after the other: what each sent and
\* received is in one piece, and only the last one may be unfinished
Successive ==
    /\ \A i, j, k \in 1..Len(requests) :
          (i < j /\ j < k /\ requests[i].caller = requests[k].caller)
              => requests[j].caller = requests[i].caller
    /\ \A i \in 1..Len(requests) :
          requests[i].caller # requests[Len(requests)].caller
              => callers[requests[i].caller].pc \in {"done", "failed"}

\* C25: an operation that found the task's id or schema id unknown has sent
\* one register request, before its own request, and its own request carries
\* the ids the registration returned; every request of an operation carries
\* known ids; no register request follows a registration that succeeded or a
\* request of an operation; and two calls of run made one after the other on
\* an unregistered task have sent register, run, run.
C25_AutoRegisterOrdering ==
    /\ \A j \in 1..Len(requests) :
          IsOpRequest(requests[j]) =>
              /\ requests[j].id # "" /\ requests[j].schema_id # 0
              /\ \A i \in 1..(j - 1) :
                    (IsRegister(requests[i]) /\ requests[i].caller = requests[j].caller)
                        => /\ i < j - 1
                           /\ Registered(requests[j - 1])
                           /\ requests[j - 1].caller = requests[j].caller
                           /\ \A k \in 1..(j - 1) :
                                 (IsRegister(requests[k])
                                    /\ requests[k].caller = requests[j].caller) => k = i
                           /\ requests[j].id = requests[j - 1].id
                           /\ requests[j].schema_id = requests[j - 1].schema_id
    /\ \A i, j \in 1..Len(requests) :
          (i < j /\ IsRegister(requests[j]))
              => ~Registered(requests[i]) /\ ~IsOpRequest(requests[i])
    /\ (/\ Successive
        /\ \A c \in CallerIds : callers[c].op = "run" /\ callers[c].pc \in {"sent", "done"}
        /\ IsRegister(requests[1]))
          => /\ Len(RequestsOnly) = 3
             /\ RequestsOnly[1].what = "register"
             /\ RequestsOnly[2].what = "run"
             /\ RequestsOnly[3].what = "run"
             /\ RequestsOnly[3].schema_id = RequestsOnly[2].schema_id

\* two runs one after the other on a task without ids: the first registered
\* and got schema 2, the second was sent to schema 2 without registering
C25_Witness ==
    /\ Successive
    /\ Len(requests) = 5
    /\ IsRegister(requests[1]) /\ requests[1].id = "" /\ requests[1].schema_id = 0
    /\ Registered(requests[2]) /\ requests[2].schema_id = 2
    /\ requests[3].what = "run" /\ requests[3].schema_id = 2
    /\ requests[4].kind = "answer" /\ requests[4].ok
    /\ requests[5].what = "run" /\ requests[5].caller # requests[3].caller
    /\ requests[5].schema_id = 2

\* C30: in any interleaving of concurrent operations on one task object, as
\* long as no registration failed, at most one register request has been
\* sent, and every request of an operation carries the task's id and schema id.
C30_RegisterAtMostOnce ==
    (\A i \in 1..Len(requests) :
        ~(requests[i].kind = "answer" /\ requests[i].what = "register" /\ ~requests[i].ok))
      => /\ Len(SelectSeq(requests, IsRegister)) <= 1
         /\ \A j \in 1..Len(requests) :
               IsOpRequest(requests[j]) => requests[j].id # "" /\ requests[j].schema_id # 0

----------------------------------------------------------------------------
(* Decoding fields the decoder cannot interpret                            *)

\* objects a NestedModel could be decoded from, one of them with a key that
\* NestedModel does not declare
NestedTexts ==
    {JObj([k \in {"name", "field2"} |-> JStr("John")]),
     JObj([k \in {"name"} |-> JStr("John")]),
     JObj([k \in {"name", "undeclared"} |-> JStr("hello")])}

\* the values of the fields of OpaqueModel in a payload
OpaqueSamples(k) ==
    CASE k = "by_int" -> {JObj([j \in {"1"} |-> o]) : o \in NestedTexts}
      [] k = "strings" ->
            {JList(<<>>), JList(<<JStr("a"), JStr("b")>>)}
            \cup {JList(<<o>>) : o \in {JObj([j \in {"name"} |-> JStr("John")])}}
      [] k = "plain" ->
            {JStr("John")} \cup {JList(<<o>>) : o \in {JObj([j \in {"name"} |-> JStr("John")])}}
            \cup {JObj([j \in {"name", "undeclared"} |-> JStr("hello")])}
      [] k = "untyped" ->
            {JInt(7), JList(<<JStr("a")>>), JObj([j \in {"name"} |-> JStr("John")])}
      [] k = "opt" -> {JNull} \cup NestedTexts

RECURSIVE OpaqueObjs(_)
OpaqueObjs(ks) ==
    IF ks = <<>> THEN {<<>>}
    ELSE LET rest == OpaqueObjs(Tail(ks))
         IN  rest \cup {Extend(f, Head(ks), x) : f \in rest, x \in OpaqueSamples(Head(ks))}

InitOpaque ==
    /\ IdleSse
    /\ IdleVer
    /\ IdleRun
    /\ IdleAgent
    /\ IdleApi
    /\ IdleRest
    /\ model = "OpaqueModel"
    /\ payload \in {JObj(f) : f \in OpaqueObjs(PayloadKeys("OpaqueModel"))}
    /\ constructed = Nothing
    /\ validated = Nothing

SpecOpaque == InitOpaque /\ [][Construct]_vars

\* the annotation is one the decoder does not interpret: a mapping whose key
\* type is not str, a collection of something else than models, an annotation
\* that is neither a collection nor a model, or none
Opaque(a) ==
    \/ a = AnnNone
    \/ a.kind = "dict" /\ a.args[1] # AnnStr
    \/ a.kind \in {"list", "set"} /\ ~IsBaseModel(a.args[1])
    \/ a.kind \notin {"list", "set", "dict", "model"}

====
